---- MODULE Spec2Model ----
(***************************************************************************)
(* Model of the vidly server: the StreamingService (server/streaming, the  *)
(* class at the end of src/server/youtube.ts), the live-stream routes and  *)
(* the publish / premiere routes of src/server/routes.ts, over the store   *)
(* of src/server/storage.ts.                                               *)
(*                                                                         *)
(* Every `await` of a handler is a point where other handlers, process     *)
(* events and timers may run; the code between two awaits is one action.   *)
(***************************************************************************)
EXTENDS Integers, Sequences, FiniteSets, Bags, TLC

VARIABLES
    liveStreams,    \* live_streams rows: [StreamIds -> row]
    videos,         \* videos rows: [VideoIds -> row]
    disk,           \* regular files present on disk (normalised absolute segments)
    activeStreams,  \* StreamingService.activeStreams: a map from stream id to ActiveStream
    procs,          \* every ffmpeg ChildProcess spawned so far, by pid
    reqs,           \* live-stream route handlers (start / stop): a bag of handler records
    cbPending,      \* [StreamIds -> number of end-callback invocations whose write is in flight]
    tokens,         \* youtube_tokens rows: a map from channel id to row
    credentials,    \* the users who have youtube_credentials
    pubs,           \* publish / premiere route handlers: a bag of handler records
    now,            \* the server's clock, in minutes
    issued,         \* the access tokens the platform has issued so far
    lives,          \* create / delete handlers of live streams and videos: a bag
    platform,       \* the platform's broadcasts, ingestion streams and bindings
    channels,       \* youtube_channels rows, by generated id (channels part)
    tokenRows,      \* youtube_tokens rows, as a set (channels part)
    oauths,         \* OAuth-callback / disconnect route handlers: a bag
    uuids           \* the number of row ids generated so far

streamVars == <<liveStreams, activeStreams, procs, reqs, cbPending>>
pubVars == <<tokens, credentials, pubs, now, issued>>
mgmtVars == <<lives, platform>>
oauthVars == <<channels, tokenRows, oauths, uuids>>
vars == <<videos, disk, streamVars, pubVars, mgmtVars, oauthVars>>

NULL == "null"
\* A null or empty path column: `!video.filePath` is true of both
NoPath == [abs |-> FALSE, segs |-> <<>>]
\* new Date(): the stream specification keeps no clock
Stamp == "now"
\* A null timestamp column (expires_at, premiere_scheduled_time)
NoTime == 0
\* The clock's first reading
StartTime == NoTime + 1

\* ---------------------------------------------------------------- bounds
MaxReqs == 3        \* live-stream requests
MaxProcs == 2       \* processes spawned
MaxPubs == 2        \* publish / premiere requests
MaxChannels == 2    \* channel ids in one publish request
MaxTime == 2        \* the clock's last reading
MaxLives == 2       \* create / delete requests of live streams and videos
MaxOauths == 3      \* OAuth callbacks and channel disconnects

\* routes.ts 627: 5 * 60 * 1000 ms, the lead time of a premiere, in minutes
FiveMinutes == 5

\* ---------------------------------------------------------------- entities
Users == {"u1", "u2"}
StreamIds == {"s1"}
VideoIds == {"v1"}

\* ---------------------------------------------------------------- paths
\* A path is [abs |-> BOOLEAN, segs |-> sequence of segments].
Path(abs, segs) == [abs |-> abs, segs |-> segs]

\* process.cwd() is /app; path.resolve(path.join(cwd, 'uploads'))
uploadsDir == Path(TRUE, <<"app", "uploads">>)

RECURSIVE Normalize(_, _)
\* POSIX normalisation of the segments of an absolute path: ".." removes the
\* segment before it and is dropped at the root.
Normalize(segs, acc) ==
    IF segs = <<>> THEN acc
    ELSE IF Head(segs) = ".."
         THEN Normalize(Tail(segs),
                        IF acc = <<>> THEN <<>> ELSE SubSeq(acc, 1, Len(acc) - 1))
         ELSE Normalize(Tail(segs), Append(acc, Head(segs)))

isAbsolute(p) == p.abs

\* path.join(dir, p) for an absolute dir: concatenates, then normalises
join(dir, p) == Path(TRUE, Normalize(dir.segs \o p.segs, <<>>))

\* youtube.ts 371-376
AbsoluteVideoPath(videoPath) ==
    IF isAbsolute(videoPath) THEN videoPath ELSE join(uploadsDir, videoPath)

\* The one symbolic link of the modelled file system: uploads/link.mp4 -> /etc/passwd
LinkPath == <<"app", "uploads", "link.mp4">>
LinkTarget == <<"etc", "passwd">>

\* fs.realpath of an absolute path, when it succeeds
realpath(p) ==
    LET n == Normalize(p.segs, <<>>)
    IN  IF n = LinkPath THEN LinkTarget ELSE n

FileExistsAlways(p, d) == TRUE

\* fs.access(p) succeeds: the file the path leads to exists
FileExists(p, d) == realpath(p) \in d

CommonLen(a, b) ==
    LET ks == {k \in 0..Len(a) : k <= Len(b) /\ SubSeq(a, 1, k) = SubSeq(b, 1, k)}
    IN  CHOOSE k \in ks : \A j \in ks : j <= k

\* path.relative(from, to) for two normalised absolute paths, as segments
relative(from, to) ==
    LET c == CommonLen(from, to)
    IN  [i \in 1..(Len(from) - c) |-> ".."] \o SubSeq(to, c + 1, Len(to))

\* rel.startsWith('..') || path.isAbsolute(rel): a relative() result is never
\* absolute on POSIX; no modelled file name itself begins with "..".
EscapesUploads(rel) == rel # <<>> /\ Head(rel) = ".."

\* youtube.ts 386-393: what the try block does. realOk says whether both
\* fs.realpath calls succeed (they fail when the file vanished or is unreadable).
PathTry(absPath, realOk) ==
    IF ~realOk THEN "realpath_failed"
    ELSE IF EscapesUploads(relative(realpath(uploadsDir), realpath(absPath)))
         THEN "outside"
         ELSE "ok"

\* youtube.ts 394-397: the catch around the try block. It receives the realpath
\* failures and also the 'Video path must be within the uploads directory'
\* error thrown at line 392, and only logs a warning for either.
CatchRethrows(outcome) == FALSE

PathError == "500 Video path must be within the uploads directory"

PathCheckRejects(absPath, realOk) ==
    PathTry(absPath, realOk) # "ok" /\ CatchRethrows(PathTry(absPath, realOk))

\* ---------------------------------------------------------------- store rows
VideoFile == Path(FALSE, <<"v1.mp4">>)     \* multer's filename (routes.ts 442)
VideoFileAbs == <<"app", "uploads", "v1.mp4">>
Passwd == <<"etc", "passwd">>

\* A null id column (youtube_broadcast_id, youtube_stream_id)
NoId == <<>>

\* A live_streams row as the create route stores it (routes.ts 904-921)
NewLiveStream(user, channel, type, video, broadcast, stream, key, url, rtmp) ==
    [userId |-> user, channelId |-> channel, streamType |-> type, videoId |-> video,
     youtubeBroadcastId |-> broadcast, youtubeStreamId |-> stream,
     streamUrl |-> url, streamKey |-> key, rtmpUrl |-> rtmp,
     status |-> "created", actualStartTime |-> NULL, actualEndTime |-> NULL]

LiveStreamRow(user, type, video) ==
    NewLiveStream(user, "A", type, video, NoId, NoId, "key", "rtmp://in",
                  <<"rtmp://in", "/", "key">>)

\* A video as the upload route creates it (routes.ts 438-447); a null
\* published_channels column is the empty list here
VideoRow(user, file, thumb) ==
    [userId |-> user, filePath |-> file, thumbnailUrl |-> thumb, status |-> "draft",
     publishedChannels |-> <<>>, youtubeVideoId |-> NULL,
     premiereScheduledTime |-> NoTime, premiereChannelId |-> NULL,
     premiereStatus |-> NULL]

\* storage.updateLiveStream (storage.ts 264-272): sets the given columns of
\* the row with this id, if there is one
updateLiveStream(rows, id, status, startT, endT) ==
    IF id \notin DOMAIN rows THEN rows ELSE
    [rows EXCEPT ![id] = [@ EXCEPT !.status = status,
                                   !.actualStartTime = IF startT = NULL THEN @ ELSE startT,
                                   !.actualEndTime = IF endT = NULL THEN @ ELSE endT]]

\* ---------------------------------------------------------------- processes
Pids == 1..Len(procs)

\* spawn('ffmpeg', args): a ChildProcess.  `signals` are the signals delivered
\* to it, `timer` the state of the 5000 ms timer stopVideoStream sets on it.
NewProc(id, launched) ==
    [stream |-> id, launched |-> launched,
     state |-> IF launched THEN "running" ELSE "errored",
     signals |-> {}, timer |-> "none"]

\* ChildProcess.killed: a signal was successfully sent by kill().  It does
\* not say that the process has terminated.
killed(pr) == pr.signals # {}

\* ChildProcess.kill(sig): the signal is delivered only while the OS process
\* exists (the handle is released when it exits or fails to launch).
kill(pr, sig) ==
    IF pr.state = "running" THEN [pr EXCEPT !.signals = @ \cup {sig}] ELSE pr

\* A process started for id that is spawned and has not exited
Alive(p) == procs[p].state = "running"
AliveFor(id) == {p \in Pids : procs[p].stream = id /\ Alive(p)}

\* youtube.ts 341-347 and 444-450: the registry entry of a stream
ActiveStream(pid, id, absPath, rtmpUrl) ==
    [process |-> pid, streamId |-> id, videoPath |-> absPath, rtmpUrl |-> rtmpUrl,
     startTime |-> Stamp]

\* Map.set and Map.delete on the registry
MapSet(m, k, v) == [x \in DOMAIN m \cup {k} |-> IF x = k THEN v ELSE m[x]]
MapDelete(m, k) == [x \in DOMAIN m \ {k} |-> m[x]]

\* ---------------------------------------------------------------- handlers
Req(op, user, id) ==
    [op |-> op, user |-> user, id |-> id, pc |-> "route", res |-> NULL,
     path |-> NoPath, realOk |-> FALSE, proc |-> 0]

\* The handlers there are; handlers are told apart by their state only
Handlers == BagToSet(reqs)

\* Handler r goes on as r2
Becomes(r, r2) == (reqs (-) SetToBag({r})) (+) SetToBag({r2})
Finish(r, res) == Becomes(r, [r EXCEPT !.pc = "done", !.res = res])
Goto(r, pc) == Becomes(r, [r EXCEPT !.pc = pc])

\* A request arrives: POST /api/live-streams/:id/start or /stop
NewRequest(op, user, id) ==
    /\ BagCardinality(reqs) < MaxReqs
    /\ reqs' = reqs (+) SetToBag({Req(op, user, id)})
    /\ UNCHANGED <<liveStreams, videos, disk, activeStreams, procs, cbPending>>
    /\ UNCHANGED <<pubVars, mgmtVars>>
    /\ UNCHANGED oauthVars

StartRouteResultAnyType(user, id) ==
    LET stream == liveStreams[id]
    IN  IF id \notin DOMAIN liveStreams THEN "404 Live stream not found"
        ELSE IF stream.userId # user THEN "403 Not authorized"
        ELSE IF stream.videoId = NULL THEN "400 No video associated"
        ELSE IF stream.videoId \notin DOMAIN videos THEN "404 Associated video not found"
        ELSE IF videos[stream.videoId].filePath = NoPath THEN "400 Video file not found"
        ELSE IF stream.streamUrl = NULL \/ stream.streamKey = NULL
             THEN "400 Stream URL and key not available"
        ELSE "ok"

\* routes.ts 1012-1044: the start route's reads and precondition checks
StartRouteResult(user, id) ==
    LET stream == liveStreams[id]
    IN  IF id \notin DOMAIN liveStreams THEN "404 Live stream not found"
        ELSE IF stream.userId # user THEN "403 Not authorized"
        ELSE IF stream.streamType # "video" THEN "400 only for video-based streams"
        ELSE IF stream.videoId = NULL THEN "400 No video associated"
        ELSE IF stream.videoId \notin DOMAIN videos THEN "404 Associated video not found"
        ELSE IF videos[stream.videoId].filePath = NoPath THEN "400 Video file not found"
        ELSE IF stream.streamUrl = NULL \/ stream.streamKey = NULL
             THEN "400 Stream URL and key not available"
        ELSE "ok"

\* routes.ts 1044: the target of the re-stream
RtmpUrl(stream) == <<stream.streamUrl, "/", stream.streamKey>>

AlreadyRunningNever(id) == FALSE

\* youtube.ts 365: this.activeStreams.has(streamId)
AlreadyRunning(id) == id \in DOMAIN activeStreams

\* routes.ts 1012-1054 and youtube.ts 365-380: the route's reads and checks,
\* then the synchronous head of startVideoStream up to the await of fs.access.
\* The rows read are not written by any other action of this specification,
\* so the reads are taken at the moment of the registry check.  A throw is
\* answered by the route's catch (1066-1070) with the error's message.
StartCheck(r) ==
    /\ r.op = "start" /\ r.pc = "route"
    /\ LET res == StartRouteResult(r.user, r.id)
       IN  IF res # "ok"
           THEN reqs' = Finish(r, res)
           ELSE IF AlreadyRunning(r.id)
           THEN reqs' = Finish(r, "500 Stream is already running")
           ELSE reqs' = Becomes(r,
                    [r EXCEPT !.pc = "access",
                              !.path = AbsoluteVideoPath(
                                  videos[liveStreams[r.id].videoId].filePath)])
    /\ UNCHANGED <<liveStreams, videos, disk, activeStreams, procs, cbPending>>
    /\ UNCHANGED <<pubVars, mgmtVars>>
    /\ UNCHANGED oauthVars

\* youtube.ts 379-383: fs.access resolves or rejects
StartAccess(r) ==
    /\ r.op = "start" /\ r.pc = "access"
    /\ IF FileExists(r.path, disk)
       THEN reqs' = Goto(r, "realpath")
       ELSE reqs' = Finish(r, "500 Video file not found")
    /\ UNCHANGED <<liveStreams, videos, disk, activeStreams, procs, cbPending>>
    /\ UNCHANGED <<pubVars, mgmtVars>>
    /\ UNCHANGED oauthVars

\* youtube.ts 386-450: the realpath check, then spawn, the handlers and
\* activeStreams.set.  A launch failure is reported by the 'error' event on
\* the next tick, before any other handler can run: its handler (435-442)
\* deletes the entry just set and invokes the end callback.
StartSpawn(r, realOk, launched) ==
    /\ r.op = "start" /\ r.pc = "realpath"
    /\ IF PathCheckRejects(r.path, realOk)
       THEN /\ reqs' = Becomes(r, [r EXCEPT !.pc = "done", !.realOk = realOk,
                                                  !.res = PathError])
            /\ UNCHANGED <<activeStreams, procs, cbPending>>
       ELSE /\ Len(procs) < MaxProcs
            /\ procs' = Append(procs, NewProc(r.id, launched))
            /\ activeStreams' =
                  IF launched
                  THEN MapSet(activeStreams, r.id,
                              ActiveStream(Len(procs) + 1, r.id, r.path,
                                           RtmpUrl(liveStreams[r.id])))
                  ELSE MapDelete(activeStreams, r.id)
            /\ cbPending' = [cbPending EXCEPT ![r.id] = IF launched THEN @ ELSE @ + 1]
            /\ reqs' = Becomes(r, [r EXCEPT !.pc = "write", !.realOk = realOk,
                                                  !.proc = Len(procs) + 1])
    /\ UNCHANGED <<liveStreams, videos, disk>>
    /\ UNCHANGED <<pubVars, mgmtVars>>
    /\ UNCHANGED oauthVars

\* routes.ts 1056-1065: the `live` write lands, then the response
StartWrite(r) ==
    /\ r.op = "start" /\ r.pc = "write"
    /\ liveStreams' = updateLiveStream(liveStreams, r.id, "live", Stamp, NULL)
    /\ reqs' = Finish(r, "200 started")
    /\ UNCHANGED <<videos, disk, activeStreams, procs, cbPending>>
    /\ UNCHANGED <<pubVars, mgmtVars>>
    /\ UNCHANGED oauthVars

\* routes.ts 1080-1087: the stop route's read and ownership check
StopRouteResult(user, id) ==
    IF id \notin DOMAIN liveStreams THEN "404 Live stream not found"
    ELSE IF liveStreams[id].userId # user THEN "403 Not authorized"
    ELSE "ok"

\* routes.ts 1080-1095 and youtube.ts 455-471: the route's checks, then
\* isStreamActive and stopVideoStream, which run without an await between them
StopStream(r) ==
    /\ r.op = "stop" /\ r.pc = "route"
    /\ LET id == r.id
           res == StopRouteResult(r.user, id)
       IN  IF res # "ok"
           THEN /\ reqs' = Finish(r, res)
                /\ UNCHANGED <<activeStreams, procs>>
           ELSE IF id \notin DOMAIN activeStreams
           THEN /\ reqs' = Finish(r, "400 Stream is not currently running")
                /\ UNCHANGED <<activeStreams, procs>>
           ELSE LET p == activeStreams[id].process
                IN  /\ procs' = [procs EXCEPT ![p] =
                                    [kill(@, "SIGTERM") EXCEPT !.timer = "armed"]]
                    /\ activeStreams' = MapDelete(activeStreams, id)
                    /\ reqs' = Becomes(r, [r EXCEPT !.pc = "write", !.proc = p])
    /\ UNCHANGED <<liveStreams, videos, disk, cbPending>>
    /\ UNCHANGED <<pubVars, mgmtVars>>
    /\ UNCHANGED oauthVars

\* routes.ts 1097-1102: the `complete` write lands, then the response
StopWrite(r) ==
    /\ r.op = "stop" /\ r.pc = "write"
    /\ liveStreams' = updateLiveStream(liveStreams, r.id, "complete", NULL, Stamp)
    /\ reqs' = Finish(r, "200 stopped")
    /\ UNCHANGED <<videos, disk, activeStreams, procs, cbPending>>
    /\ UNCHANGED <<pubVars, mgmtVars>>
    /\ UNCHANGED oauthVars

\* youtube.ts 463-467: the 5000 ms timer set by stopVideoStream fires
KillTimer(p) ==
    /\ procs[p].timer = "armed"
    /\ procs' = [procs EXCEPT ![p] =
                    [(IF killed(@) = FALSE THEN kill(@, "SIGKILL") ELSE @)
                        EXCEPT !.timer = "fired"]]
    /\ UNCHANGED <<liveStreams, videos, disk, activeStreams, reqs, cbPending>>
    /\ UNCHANGED <<pubVars, mgmtVars>>
    /\ UNCHANGED oauthVars

\* The ffmpeg process terminates: it ended, crashed or was killed by a signal
ProcExit(p) ==
    /\ procs[p].state = "running"
    /\ procs' = [procs EXCEPT ![p] = [@ EXCEPT !.state = "exited"]]
    /\ UNCHANGED <<liveStreams, videos, disk, activeStreams, reqs, cbPending>>
    /\ UNCHANGED <<pubVars, mgmtVars>>
    /\ UNCHANGED oauthVars

\* youtube.ts 426-433: the 'close' event of a process.  After a launch
\* failure Node may or may not emit 'close' after 'error'.
ProcClose(p) ==
    /\ procs[p].state \in {"exited", "errored"}
    /\ procs' = [procs EXCEPT ![p] = [@ EXCEPT !.state = "closed"]]
    /\ activeStreams' = MapDelete(activeStreams, procs[p].stream)
    /\ cbPending' = [cbPending EXCEPT ![procs[p].stream] = @ + 1]
    /\ UNCHANGED <<liveStreams, videos, disk, reqs>>
    /\ UNCHANGED <<pubVars, mgmtVars>>
    /\ UNCHANGED oauthVars

\* routes.ts 39-49: the write of one end-callback invocation lands
CallbackWrite(id) ==
    /\ cbPending[id] > 0
    /\ cbPending' = [cbPending EXCEPT ![id] = @ - 1]
    /\ liveStreams' = updateLiveStream(liveStreams, id, "complete", NULL, Stamp)
    /\ UNCHANGED <<videos, disk, activeStreams, procs, reqs>>
    /\ UNCHANGED <<pubVars, mgmtVars>>
    /\ UNCHANGED oauthVars

\* ---------------------------------------------------------------- specification
\* The stream types the create route stores (routes.ts 804, 826)
StreamTypes == {"video", "rtmp"}

InitStoreOf(type) ==
    /\ liveStreams = [id \in StreamIds |-> LiveStreamRow("u1", type, "v1")]
    /\ activeStreams = <<>>
    /\ procs = <<>>
    /\ reqs = EmptyBag
    /\ cbPending = [id \in StreamIds |-> 0]

InitStore == InitStoreOf("video")

\* Videos reach the store through the upload route (a multer file name) or
\* the record-only route (no file path); a published video's file is gone.
\* No publish or premiere request arrives in the stream specifications
InitPubIdle ==
    /\ tokens = <<>>
    /\ credentials = {}
    /\ pubs = EmptyBag
    /\ now = StartTime
    /\ issued = 0

NoPlatform == [broadcasts |-> {}, streams |-> {}, bound |-> {}, made |-> 0]

\* No live stream or video is created or deleted
InitMgmtIdle ==
    /\ lives = EmptyBag
    /\ platform = NoPlatform

\* No channel is connected or disconnected
InitOauthIdle ==
    /\ channels = <<>>
    /\ tokenRows = {}
    /\ oauths = EmptyBag
    /\ uuids = 0

Init ==
    /\ \E type \in StreamTypes : InitStoreOf(type)
    /\ InitPubIdle
    /\ InitMgmtIdle
    /\ InitOauthIdle
    /\ \E file \in {NoPath, VideoFile} : videos = [v \in VideoIds |-> VideoRow("u1", file, NULL)]
    /\ disk \in {{VideoFileAbs, Passwd}, {Passwd}}

Next ==
    \/ \E op \in {"start", "stop"}, u \in Users, id \in StreamIds : NewRequest(op, u, id)
    \/ \E r \in Handlers : StartCheck(r)
    \/ \E r \in Handlers : StartAccess(r)
    \/ \E r \in Handlers, realOk \in BOOLEAN, launched \in BOOLEAN : StartSpawn(r, realOk, launched)
    \/ \E r \in Handlers : StartWrite(r)
    \/ \E r \in Handlers : StopStream(r)
    \/ \E r \in Handlers : StopWrite(r)
    \/ \E p \in Pids : KillTimer(p)
    \/ \E p \in Pids : ProcExit(p)
    \/ \E p \in Pids : ProcClose(p)
    \/ \E id \in StreamIds : CallbackWrite(id)

Spec == Init /\ [][Next]_vars

\* startVideoStream is exported and takes any string as videoPath: here the
\* path handed to it (through the video row, as the route hands it on) ranges
\* over relative and absolute paths inside and outside the upload root, and
\* every file named exists.
PathInputs ==
    { VideoFile,                                        \* v1.mp4
      Path(FALSE, <<"..", "..", "etc", "passwd">>),     \* ../../etc/passwd
      Path(TRUE, <<"etc", "passwd">>),                  \* /etc/passwd
      Path(TRUE, <<"app", "uploads", "v1.mp4">>),       \* /app/uploads/v1.mp4
      Path(TRUE, <<"app", "uploads", "..", "..", "etc", "passwd">>),
      Path(FALSE, <<"link.mp4">>),                      \* a link to /etc/passwd
      Path(FALSE, <<"gone.mp4">>) }                     \* no such file

InitDirect ==
    /\ InitStore
    /\ InitPubIdle
    /\ InitMgmtIdle
    /\ InitOauthIdle
    /\ \E file \in PathInputs : videos = [v \in VideoIds |-> VideoRow("u1", file, NULL)]
    /\ disk = {VideoFileAbs, Passwd}

SpecDirect == InitDirect /\ [][Next]_vars

\* ================================================================ stopAll
\* The ids of the registry in the Map's iteration order, which is the order
\* of insertion: an entry set later holds a process spawned later
TrackedInOrder(reg) ==
    CHOOSE s \in [1..Cardinality(DOMAIN reg) -> DOMAIN reg] :
        \A i, j \in DOMAIN s : i < j => reg[s[i]].process < reg[s[j]].process

RECURSIVE StopEachUncaught(_, _, _, _)
StopEachUncaught(ids, thrown, ps, reg) ==
    IF ids = <<>> \/ Head(ids) \in thrown THEN [procs |-> ps, reg |-> reg]
    ELSE StopEachUncaught(Tail(ids), thrown,
            [ps EXCEPT ![reg[Head(ids)].process] =
                [kill(@, "SIGTERM") EXCEPT !.timer = "armed"]],
            MapDelete(reg, Head(ids)))

RECURSIVE StopEach(_, _, _, _)
\* youtube.ts 486-492: the loop of stopAllStreams over the registry, each
\* stopVideoStream (455-471) in a try of its own.  `thrown` are the ids for
\* which stopVideoStream throws at process.kill, before the timer is set and
\* the entry deleted; the catch logs the error and the loop goes on.
StopEach(ids, thrown, ps, reg) ==
    IF ids = <<>> THEN [procs |-> ps, reg |-> reg]
    ELSE IF Head(ids) \in thrown THEN StopEach(Tail(ids), thrown, ps, reg)
    ELSE StopEach(Tail(ids), thrown,
            [ps EXCEPT ![reg[Head(ids)].process] =
                [kill(@, "SIGTERM") EXCEPT !.timer = "armed"]],
            MapDelete(reg, Head(ids)))

\* youtube.ts 485-493: stopAllStreams, which has no await
StopAll(thrown) ==
    /\ thrown \subseteq DOMAIN activeStreams
    /\ LET out == StopEach(TrackedInOrder(activeStreams), thrown, procs, activeStreams)
       IN  /\ procs' = out.procs
           /\ activeStreams' = out.reg
    /\ UNCHANGED <<liveStreams, videos, disk, reqs, cbPending>>
    /\ UNCHANGED <<pubVars, mgmtVars>>
    /\ UNCHANGED oauthVars

\* Three video streams of u1 have been started, in this order, and are live
TrackedStreams == <<"s1", "s2", "s3">>

InitTracked ==
    /\ liveStreams = [id \in {TrackedStreams[i] : i \in DOMAIN TrackedStreams} |->
                        [LiveStreamRow("u1", "video", "v1") EXCEPT !.status = "live",
                                                                   !.actualStartTime = Stamp]]
    /\ videos = [v \in VideoIds |-> VideoRow("u1", VideoFile, NULL)]
    /\ disk = {VideoFileAbs, Passwd}
    /\ procs = [i \in DOMAIN TrackedStreams |-> NewProc(TrackedStreams[i], TRUE)]
    /\ activeStreams = [id \in {TrackedStreams[i] : i \in DOMAIN TrackedStreams} |->
                          ActiveStream(CHOOSE i \in DOMAIN TrackedStreams : TrackedStreams[i] = id, id,
                                       AbsoluteVideoPath(VideoFile),
                                       RtmpUrl(LiveStreamRow("u1", "video", "v1")))]
    /\ reqs = EmptyBag
    /\ cbPending = [id \in {TrackedStreams[i] : i \in DOMAIN TrackedStreams} |-> 0]
    /\ InitPubIdle
    /\ InitMgmtIdle
    /\ InitOauthIdle

NextStopAll ==
    \/ \E thrown \in SUBSET DOMAIN activeStreams : StopAll(thrown)
    \/ \E p \in Pids : KillTimer(p)
    \/ \E p \in Pids : ProcExit(p)
    \/ \E p \in Pids : ProcClose(p)
    \/ \E id \in DOMAIN cbPending : CallbackWrite(id)

SpecStopAll == InitTracked /\ [][NextStopAll]_vars

\* ================================================================ publish
\* youtube_channels rows: A and B belong to u1, X to u2
ChannelIds == {"A", "B", "X"}
ChannelOwner == [c \in ChannelIds |-> IF c = "X" THEN "u2" ELSE "u1"]

\* storage.getYoutubeChannels(userId), as the set of row ids (routes.ts 505-506)
UserChannelIds(user) == {c \in ChannelIds : ChannelOwner[c] = user}

\* storage.getYoutubeChannel(userId, channelId) finds a row (storage.ts 169-176)
OwnsChannel(user, c) == c \in ChannelIds /\ ChannelOwner[c] = user

\* A youtube_tokens row; granted is the expiry_date of the last refresh
\* response stored in it, if there was one
Token(access, refresh, expires) ==
    [accessToken |-> access, refreshToken |-> refresh, expiresAt |-> expires,
     granted |-> NoTime]

IsExpiredStrictly(token, t) == token.expiresAt # NoTime /\ token.expiresAt < t

\* routes.ts 534, 667, 851, 963: token.expiresAt && new Date(token.expiresAt) <= new Date()
IsExpired(token, t) == token.expiresAt # NoTime /\ token.expiresAt <= t

\* storage.updateYoutubeToken (storage.ts 148-156) with {accessToken, expiresAt}:
\* a column given as undefined is left as it is
updateYoutubeToken(rows, c, access, expires) ==
    IF c \notin DOMAIN rows THEN rows ELSE
    [rows EXCEPT ![c] = [@ EXCEPT !.accessToken = access,
                                  !.expiresAt = IF expires = NoTime THEN @ ELSE expires,
                                  !.granted = expires]]

\* routes.ts 13-20 getVideoFilePath
getVideoFilePath(p) == IF isAbsolute(p) THEN p ELSE join(uploadsDir, p)

\* The thumbnail of a video that has one (routes.ts 431)
Thumbnail == "/uploads/t.png"

\* The id the platform gives the video uploaded by the i-th attempt of a request
VideoIdOf(c, i) == <<c, i>>

\* A publish or premiere handler.  channelIds, published, ytIds are the
\* handler's locals; log and ext record, per channel attempt, what happened
\* and how many calls to the platform the handler has made.
Pub(op, user, vid, channelIds, sched) ==
    [op |-> op, user |-> user, vid |-> vid, channelIds |-> channelIds, sched |-> sched,
     pc |-> "validate", res |-> NULL, i |-> 1,
     filePath |-> NoPath, thumb |-> NULL,
     accessToken |-> 0, newExpiry |-> NoTime,
     published |-> <<>>, ytIds |-> <<>>, log |-> <<>>, ext |-> 0]

PubHandlers == BagToSet(pubs)
PubBecomes(h, h2) == (pubs (-) SetToBag({h})) (+) SetToBag({h2})
\* The response is sent; the handler's locals are gone
PubFinish(h, res) ==
    [h EXCEPT !.pc = "done", !.res = res, !.i = 1, !.filePath = NoPath, !.thumb = NULL,
              !.accessToken = 0, !.newExpiry = NoTime]

\* Channel lists of a publish request: non-empty (routes.ts 480)
RECURSIVE SeqsUpTo(_, _)
SeqsUpTo(S, n) ==
    IF n = 0 THEN {<<>>}
    ELSE LET shorter == SeqsUpTo(S, n - 1)
         IN  shorter \cup {Append(q, x) : q \in shorter, x \in S}
ChannelLists == SeqsUpTo(ChannelIds, MaxChannels) \ {<<>>}

\* The lists a user sends: u2, who owns no video, is refused whatever the list
ChannelListsOf(user) == {cs \in ChannelLists : user = "u1" \/ cs = <<"X">>}
ChannelsAskedBy(user) == {c \in ChannelIds : user = "u1" \/ c = "X"}

\* Premiere times asked for: not in the future, under the lead time at the
\* first reading of the clock, and the lead time exactly at its last reading
SchedTimes == {StartTime, StartTime + FiveMinutes - 1, MaxTime + FiveMinutes}

\* POST /api/videos/:id/publish arrives
NewPublish(user, vid, channelIds) ==
    /\ BagCardinality(pubs) < MaxPubs
    /\ pubs' = pubs (+) SetToBag({Pub("publish", user, vid, channelIds, NoTime)})
    /\ UNCHANGED <<videos, disk, tokens, credentials, now, issued, streamVars, mgmtVars>>
    /\ UNCHANGED oauthVars

\* POST /api/videos/:id/premiere arrives
NewPremiere(user, vid, c, sched) ==
    /\ BagCardinality(pubs) < MaxPubs
    /\ pubs' = pubs (+) SetToBag({Pub("premiere", user, vid, <<c>>, sched)})
    /\ UNCHANGED <<videos, disk, tokens, credentials, now, issued, streamVars, mgmtVars>>
    /\ UNCHANGED oauthVars

\* Time passes
Tick ==
    /\ now < MaxTime
    /\ now' = now + 1
    /\ UNCHANGED <<videos, disk, tokens, credentials, pubs, issued, streamVars, mgmtVars>>
    /\ UNCHANGED oauthVars

ChannelsAuthorizedFirstOnly(user, channelIds) == channelIds[1] \in UserChannelIds(user)

\* routes.ts 508-512: every requested channel id is one of the user's
ChannelsAuthorized(user, channelIds) ==
    \A k \in 1..Len(channelIds) : channelIds[k] \in UserChannelIds(user)

FilePathMissingNever(video) == FALSE

\* routes.ts 500, 641: !video.filePath
FilePathMissing(video) == video.filePath = NoPath

\* routes.ts 490-520: the publish route's checks, in order
PublishCheck(user, vid, channelIds) ==
    IF vid \notin DOMAIN videos THEN "404 Video not found"
    ELSE IF videos[vid].userId # user THEN "403 Not authorized to publish this video"
    ELSE IF FilePathMissing(videos[vid]) THEN "400 Video file not found"
    ELSE IF ~ChannelsAuthorized(user, channelIds)
         THEN "403 Channel not found or not authorized"
    ELSE IF user \notin credentials THEN "400 YouTube API credentials not configured"
    ELSE "ok"

\* routes.ts 490-525: the checks; the video row read at line 490 is the
\* `video` the handler uses from then on
PubValidate(h) ==
    /\ h.op = "publish" /\ h.pc = "validate"
    /\ LET res == PublishCheck(h.user, h.vid, h.channelIds)
       IN  pubs' = PubBecomes(h,
                IF res # "ok" THEN PubFinish(h, res)
                ELSE [h EXCEPT !.pc = "token",
                               !.filePath = videos[h.vid].filePath,
                               !.thumb = videos[h.vid].thumbnailUrl])
    /\ UNCHANGED <<videos, disk, tokens, credentials, now, issued, streamVars, mgmtVars>>
    /\ UNCHANGED oauthVars

NextChannelAbort(i, n, out) == IF out = "uploaded" THEN i + 1 ELSE n + 1

\* routes.ts 527-575: where the loop goes after channel i of n ended with `out`:
\* `continue` (529, 551), the catch (572-574) and the normal end of the body
\* all lead to the next channel
NextChannel(i, n, out) == i + 1

\* The end of one iteration of the loop over channelIds
Advance(h, out, calls) ==
    LET j == NextChannel(h.i, Len(h.channelIds), out)
    IN  [h EXCEPT !.i = j,
                  !.pc = IF j > Len(h.channelIds) THEN "update" ELSE "token",
                  !.log = Append(@, out),
                  !.ext = @ + calls]

\* routes.ts 528-553: the token row is read and its expiry judged
PubToken(h) ==
    /\ h.op = "publish" /\ h.pc = "token"
    /\ LET c == h.channelIds[h.i]
       IN  pubs' = PubBecomes(h,
                IF c \notin DOMAIN tokens THEN Advance(h, "no_token", 0)
                ELSE IF ~IsExpired(tokens[c], now)
                     THEN [h EXCEPT !.pc = "upload", !.accessToken = tokens[c].accessToken]
                ELSE IF tokens[c].refreshToken THEN [h EXCEPT !.pc = "refresh"]
                ELSE Advance(h, "no_refresh_token", 0))
    /\ UNCHANGED <<videos, disk, tokens, credentials, now, issued, streamVars, mgmtVars>>
    /\ UNCHANGED oauthVars

\* What a refresh can answer with as expiry_date: none, or a time to come
Expiries == {NoTime, now + 1}

\* routes.ts 541-542: refreshAccessToken answers or throws
PubRefresh(h, ok, expiry) ==
    /\ h.op = "publish" /\ h.pc = "refresh"
    /\ IF ok
       THEN /\ issued' = issued + 1
            /\ pubs' = PubBecomes(h, [h EXCEPT !.pc = "saveToken", !.ext = @ + 1,
                                               !.accessToken = issued + 1,
                                               !.newExpiry = expiry])
       ELSE /\ pubs' = PubBecomes(h, Advance(h, "refresh_failed", 1))
            /\ UNCHANGED issued
    /\ UNCHANGED <<videos, disk, tokens, credentials, now, streamVars, mgmtVars>>
    /\ UNCHANGED oauthVars

\* routes.ts 545-548: the refreshed token is stored
PubSaveToken(h) ==
    /\ h.op = "publish" /\ h.pc = "saveToken"
    /\ tokens' = updateYoutubeToken(tokens, h.channelIds[h.i], h.accessToken, h.newExpiry)
    /\ pubs' = PubBecomes(h, [h EXCEPT !.pc = "upload"])
    /\ UNCHANGED <<videos, disk, credentials, now, issued, streamVars, mgmtVars>>
    /\ UNCHANGED oauthVars

\* What uploadVideoToYouTube (youtube.ts 95-129) can come to: the insert
\* fails, also when the file to stream is gone; it answers with or without
\* an id; the thumbnail call made for a video with a thumbnail throws.
UploadOutcomes(fileThere, thumb) ==
    IF ~fileThere THEN {"upload_failed"}
    ELSE {"uploaded", "upload_failed", "no_id"}
         \cup (IF thumb = NULL THEN {} ELSE {"thumbnail_failed"})

\* youtubeVideoIds[channelId] = id (routes.ts 570): a new key goes last
SetId(ids, c, id) ==
    IF \E k \in 1..Len(ids) : ids[k].ch = c
    THEN [k \in 1..Len(ids) |-> IF ids[k].ch = c THEN [ch |-> c, id |-> id] ELSE ids[k]]
    ELSE Append(ids, [ch |-> c, id |-> id])

\* routes.ts 555-574: the upload to one channel ends
PubUpload(h, out) ==
    /\ h.op = "publish" /\ h.pc = "upload"
    /\ out \in UploadOutcomes(FileExists(getVideoFilePath(h.filePath), disk), h.thumb)
    /\ LET c == h.channelIds[h.i]
           h2 == IF out = "uploaded"
                 THEN [h EXCEPT !.published = Append(@, c),
                                !.ytIds = SetId(@, c, VideoIdOf(c, h.i))]
                 ELSE h
       IN  pubs' = PubBecomes(h, Advance(h2, out, 1))
    /\ UNCHANGED <<videos, disk, tokens, credentials, now, issued, streamVars, mgmtVars>>
    /\ UNCHANGED oauthVars

updateVideoPublishedIfAny(rows, vid, publishedChannels, ids) ==
    IF vid \notin DOMAIN rows \/ ids = <<>> THEN rows ELSE
    [rows EXCEPT ![vid] = [@ EXCEPT !.status = "published",
                                    !.publishedChannels = publishedChannels,
                                    !.youtubeVideoId = ids[1].id]]

\* storage.updateVideo (storage.ts 223-231) as the publish route calls it
\* (routes.ts 578-584): youtubeVideoId is left alone when firstVideoId is undefined
updateVideoPublished(rows, vid, publishedChannels, ids) ==
    IF vid \notin DOMAIN rows THEN rows ELSE
    [rows EXCEPT ![vid] = [@ EXCEPT !.status = "published",
                                    !.publishedChannels = publishedChannels,
                                    !.youtubeVideoId = IF ids = <<>> THEN @ ELSE ids[1].id]]

\* routes.ts 577-584
PubUpdate(h) ==
    /\ h.op = "publish" /\ h.pc = "update"
    /\ videos' = updateVideoPublished(videos, h.vid, h.published, h.ytIds)
    /\ pubs' = PubBecomes(h, [h EXCEPT !.pc = "unlink"])
    /\ UNCHANGED <<disk, tokens, credentials, now, issued, streamVars, mgmtVars>>
    /\ UNCHANGED oauthVars

\* fs.unlink of the video file; a failure is logged (routes.ts 587-591, 711-715)
unlink(d, p) == d \ {realpath(getVideoFilePath(p))}

\* routes.ts 586-597
PubUnlink(h) ==
    /\ h.op = "publish" /\ h.pc = "unlink"
    /\ disk' = unlink(disk, h.filePath)
    /\ pubs' = PubBecomes(h, PubFinish(h, "200 Video published successfully"))
    /\ UNCHANGED <<videos, tokens, credentials, now, issued, streamVars, mgmtVars>>
    /\ UNCHANGED oauthVars

TooSoonInclusive(sched, t) == sched <= t + FiveMinutes

\* routes.ts 627-628: scheduledDate < fiveMinutesFromNow
TooSoon(sched, t) == sched < t + FiveMinutes

\* routes.ts 619-683: the premiere route's checks, in order
PremiereCheck(user, vid, c, sched, t) ==
    IF sched <= t THEN "400 Scheduled time must be in the future"
    ELSE IF TooSoon(sched, t)
         THEN "400 Scheduled time must be at least 5 minutes in the future"
    ELSE IF vid \notin DOMAIN videos THEN "404 Video not found"
    ELSE IF videos[vid].userId # user THEN "403 Not authorized"
    ELSE IF FilePathMissing(videos[vid]) THEN "400 Video file not found"
    ELSE IF ~OwnsChannel(user, c) THEN "403 Channel not found or not authorized"
    ELSE IF c \notin DOMAIN tokens THEN "400 Channel not authenticated"
    ELSE IF user \notin credentials THEN "400 YouTube API credentials not configured"
    ELSE IF IsExpired(tokens[c], t) /\ ~tokens[c].refreshToken
         THEN "400 Token expired. Please reconnect the channel."
    ELSE "ok"

PremValidate(h) ==
    /\ h.op = "premiere" /\ h.pc = "validate"
    /\ LET c == h.channelIds[1]
           res == PremiereCheck(h.user, h.vid, c, h.sched, now)
       IN  pubs' = PubBecomes(h,
                IF res # "ok" THEN PubFinish(h, res)
                ELSE [h EXCEPT !.pc = IF IsExpired(tokens[c], now) THEN "refresh" ELSE "upload",
                               !.accessToken = tokens[c].accessToken,
                               !.filePath = videos[h.vid].filePath,
                               !.thumb = videos[h.vid].thumbnailUrl])
    /\ UNCHANGED <<videos, disk, tokens, credentials, now, issued, streamVars, mgmtVars>>
    /\ UNCHANGED oauthVars

PremiereFailed == "500 Failed to schedule premiere"

catchDiskCleanup(d, p) == d \ {realpath(getVideoFilePath(p))}

\* routes.ts 722-728: the route's catch answers and leaves the file where it is
catchDisk(d, p) == d

\* routes.ts 669-672: a throw ends the request in the route's catch (722-728)
PremRefresh(h, ok, expiry) ==
    /\ h.op = "premiere" /\ h.pc = "refresh"
    /\ IF ok
       THEN /\ issued' = issued + 1
            /\ pubs' = PubBecomes(h, [h EXCEPT !.pc = "saveToken", !.ext = @ + 1,
                                               !.accessToken = issued + 1,
                                               !.newExpiry = expiry])
       ELSE /\ pubs' = PubBecomes(h, [PubFinish(h, PremiereFailed) EXCEPT !.ext = @ + 1])
            /\ UNCHANGED issued
    /\ disk' = IF ok THEN disk ELSE catchDisk(disk, h.filePath)
    /\ UNCHANGED <<videos, tokens, credentials, now, streamVars, mgmtVars>>
    /\ UNCHANGED oauthVars

\* routes.ts 674-677
PremSaveToken(h) ==
    /\ h.op = "premiere" /\ h.pc = "saveToken"
    /\ tokens' = updateYoutubeToken(tokens, h.channelIds[1], h.accessToken, h.newExpiry)
    /\ pubs' = PubBecomes(h, [h EXCEPT !.pc = "upload"])
    /\ UNCHANGED <<videos, disk, credentials, now, issued, streamVars, mgmtVars>>
    /\ UNCHANGED oauthVars

\* routes.ts 685-699 and youtube.ts 187-238: scheduleVideoPremiere returns the
\* video id, or throws (insert failed, no id, thumbnail call failed)
PremUpload(h, out) ==
    /\ h.op = "premiere" /\ h.pc = "upload"
    /\ out \in UploadOutcomes(FileExists(getVideoFilePath(h.filePath), disk), h.thumb)
    /\ LET c == h.channelIds[1]
           h2 == [h EXCEPT !.ext = @ + 1,
                           !.log = Append(@, out)]
       IN  pubs' = PubBecomes(h,
                IF out = "uploaded"
                THEN [h2 EXCEPT !.pc = "update", !.ytIds = SetId(@, c, VideoIdOf(c, 1))]
                ELSE PubFinish(h2, PremiereFailed))
    /\ disk' = IF out = "uploaded" THEN disk ELSE catchDisk(disk, h.filePath)
    /\ UNCHANGED <<videos, tokens, credentials, now, issued, streamVars, mgmtVars>>
    /\ UNCHANGED oauthVars

\* storage.updateVideo as the premiere route calls it (routes.ts 702-708)
updateVideoPremiere(rows, vid, sched, c, id) ==
    IF vid \notin DOMAIN rows THEN rows ELSE
    [rows EXCEPT ![vid] = [@ EXCEPT !.premiereScheduledTime = sched,
                                    !.premiereChannelId = c,
                                    !.youtubeVideoId = id,
                                    !.premiereStatus = "scheduled",
                                    !.status = "premiere_scheduled"]]

\* routes.ts 701-708: the record is updated, or storage.updateVideo throws
\* and the request ends in the route's catch (722-728)
PremUpdate(h, ok) ==
    /\ h.op = "premiere" /\ h.pc = "update"
    /\ IF ok
       THEN /\ videos' = updateVideoPremiere(videos, h.vid, h.sched, h.channelIds[1],
                                             h.ytIds[1].id)
            /\ pubs' = PubBecomes(h, [h EXCEPT !.pc = "unlink"])
            /\ disk' = disk
       ELSE /\ videos' = videos
            /\ pubs' = PubBecomes(h, PubFinish(h, PremiereFailed))
            /\ disk' = catchDisk(disk, h.filePath)
    /\ UNCHANGED <<tokens, credentials, now, issued, streamVars, mgmtVars>>
    /\ UNCHANGED oauthVars

\* routes.ts 710-721
PremUnlink(h) ==
    /\ h.op = "premiere" /\ h.pc = "unlink"
    /\ disk' = unlink(disk, h.filePath)
    /\ pubs' = PubBecomes(h, PubFinish(h, "200 Premiere scheduled successfully"))
    /\ UNCHANGED <<videos, tokens, credentials, now, issued, streamVars, mgmtVars>>
    /\ UNCHANGED oauthVars

\* The token rows the channels of u1 can have: the OAuth callback stores the
\* same access token for every channel of an account (routes.ts 294-314)
ExpiredRefreshable == Token(0, TRUE, StartTime)
ExpiredForGood == Token(0, FALSE, StartTime)
ValidForNow == Token(0, TRUE, StartTime + 1)
NeverExpiring == Token(0, FALSE, NoTime)
TokenTables ==
    {[c \in ChannelIds |-> IF c = "A" THEN ValidForNow
                           ELSE IF c = "B" THEN ExpiredForGood ELSE NeverExpiring],
     [c \in {"A", "X"} |-> IF c = "A" THEN ExpiredRefreshable ELSE NeverExpiring]}

InitPublish ==
    /\ InitStore
    /\ InitMgmtIdle
    /\ InitOauthIdle
    /\ \/ /\ videos = [v \in VideoIds |-> VideoRow("u1", VideoFile, Thumbnail)]
          /\ disk = {VideoFileAbs, Passwd}
       \/ /\ videos = [v \in VideoIds |-> VideoRow("u1", NoPath, NULL)]
          /\ disk = {Passwd}
    /\ tokens \in TokenTables
    /\ credentials \in {{"u1"}, {}}
    /\ pubs = EmptyBag
    /\ now = StartTime
    /\ issued = 0

NextPublish ==
    \/ \E u \in Users, v \in VideoIds : \E cs \in ChannelListsOf(u) : NewPublish(u, v, cs)
    \/ \E u \in Users, v \in VideoIds, t \in SchedTimes : \E c \in ChannelsAskedBy(u) :
          NewPremiere(u, v, c, t)
    \/ Tick
    \/ \E h \in PubHandlers : PubValidate(h)
    \/ \E h \in PubHandlers : PubToken(h)
    \/ \E h \in PubHandlers, ok \in BOOLEAN, e \in Expiries : PubRefresh(h, ok, e)
    \/ \E h \in PubHandlers : PubSaveToken(h)
    \/ \E h \in PubHandlers, out \in {"uploaded", "upload_failed", "no_id", "thumbnail_failed"} :
          PubUpload(h, out)
    \/ \E h \in PubHandlers : PubUpdate(h)
    \/ \E h \in PubHandlers : PubUnlink(h)
    \/ \E h \in PubHandlers : PremValidate(h)
    \/ \E h \in PubHandlers, ok \in BOOLEAN, e \in Expiries : PremRefresh(h, ok, e)
    \/ \E h \in PubHandlers : PremSaveToken(h)
    \/ \E h \in PubHandlers, out \in {"uploaded", "upload_failed", "no_id", "thumbnail_failed"} :
          PremUpload(h, out)
    \/ \E h \in PubHandlers, ok \in BOOLEAN : PremUpdate(h, ok)
    \/ \E h \in PubHandlers : PremUnlink(h)

SpecPublish == InitPublish /\ [][NextPublish]_vars

\* Both channels of u1 have a usable token: A's is expired and can be
\* refreshed, B's is valid
BothUsable ==
    [c \in ChannelIds |-> IF c = "A" THEN ExpiredRefreshable
                          ELSE IF c = "B" THEN ValidForNow ELSE NeverExpiring]

InitOverlap ==
    /\ InitStore
    /\ InitMgmtIdle
    /\ InitOauthIdle
    /\ videos = [v \in VideoIds |-> VideoRow("u1", VideoFile, Thumbnail)]
    /\ disk = {VideoFileAbs, Passwd}
    /\ tokens = BothUsable
    /\ credentials = {"u1"}
    /\ pubs = EmptyBag
    /\ now = StartTime
    /\ issued = 0

\* Publish requests only, at one reading of the clock
NextOverlap ==
    \/ \E u \in Users, v \in VideoIds : \E cs \in ChannelListsOf(u) : NewPublish(u, v, cs)
    \/ \E h \in PubHandlers : PubValidate(h)
    \/ \E h \in PubHandlers : PubToken(h)
    \/ \E h \in PubHandlers, ok \in BOOLEAN, e \in Expiries : PubRefresh(h, ok, e)
    \/ \E h \in PubHandlers : PubSaveToken(h)
    \/ \E h \in PubHandlers, out \in {"uploaded", "upload_failed", "no_id", "thumbnail_failed"} :
          PubUpload(h, out)
    \/ \E h \in PubHandlers : PubUpdate(h)
    \/ \E h \in PubHandlers : PubUnlink(h)

SpecOverlap == InitOverlap /\ [][NextOverlap]_vars

\* ================================================================ live-stream management
\* Ids of the rows the create route inserts, and the stream names (keys) of
\* the ingestion streams the platform makes, by the platform's numbering
NewIds == <<"s2", "s3", "s4">>
StreamNames == <<"k1", "k2", "k3">>
IngestionAddress == "rtmp://yt"

BroadcastId(n) == <<"b", n>>
IngestId(n) == <<"i", n>>

\* A handler of POST /api/live-streams, DELETE /api/live-streams/:id or
\* DELETE /api/videos/:id.  calls lists the handler's calls to the platform
\* in order, each with the access token and the ids it was given.
Mgmt(op, user, ch, type, vid, id) ==
    [op |-> op, user |-> user, ch |-> ch, type |-> type, vid |-> vid, id |-> id,
     pc |-> "validate", res |-> NULL, accessToken |-> 0, newExpiry |-> NoTime,
     bid |-> NoId, sid |-> NoId, key |-> NULL, calls |-> <<>>]

Call(api, tok, args) == [api |-> api, tok |-> tok, args |-> args]

MgmtHandlers == BagToSet(lives)
MgmtBecomes(h, h2) == (lives (-) SetToBag({h})) (+) SetToBag({h2})
MgmtFinish(h, res) ==
    [h EXCEPT !.pc = "done", !.res = res, !.accessToken = 0, !.newExpiry = NoTime]

NewMgmt(op, user, ch, type, vid, id) ==
    /\ BagCardinality(lives) < MaxLives
    /\ lives' = lives (+) SetToBag({Mgmt(op, user, ch, type, vid, id)})
    /\ UNCHANGED <<videos, disk, streamVars, pubVars, platform>>
    /\ UNCHANGED oauthVars

\* routes.ts 820-858: the create route's checks, in order
CreateCheck(user, ch, type, vid, t) ==
    IF ~OwnsChannel(user, ch) THEN "403 Channel not found or not authorized"
    ELSE IF type = "video" /\ vid # NULL /\ vid \notin DOMAIN videos
         THEN "404 Video not found"
    ELSE IF type = "video" /\ vid # NULL /\ videos[vid].userId # user
         THEN "403 Not authorized to use this video"
    ELSE IF ch \notin DOMAIN tokens THEN "400 Channel not authenticated"
    ELSE IF IsExpired(tokens[ch], t) /\ ~tokens[ch].refreshToken
         THEN "400 Token expired and no refresh token. Please reconnect the channel."
    ELSE IF IsExpired(tokens[ch], t) /\ user \notin credentials
         THEN "400 YouTube API credentials not configured"
    ELSE "ok"

CreateFailed == "500 Failed to create live stream"

\* routes.ts 820-858
CreateValidate(h) ==
    /\ h.op = "create" /\ h.pc = "validate"
    /\ LET res == CreateCheck(h.user, h.ch, h.type, h.vid, now)
       IN  lives' = MgmtBecomes(h,
                IF res # "ok" THEN MgmtFinish(h, res)
                ELSE [h EXCEPT !.pc = IF IsExpired(tokens[h.ch], now) THEN "refresh"
                                      ELSE "broadcast",
                               !.accessToken = tokens[h.ch].accessToken])
    /\ UNCHANGED <<videos, disk, streamVars, pubVars, platform>>
    /\ UNCHANGED oauthVars

\* routes.ts 860-862, 977-979: refreshAccessToken answers or throws; `failed`
\* is the answer of the route's catch
MgmtRefresh(h, ok, expiry, failed) ==
    /\ h.pc = "refresh"
    /\ IF ok
       THEN /\ issued' = issued + 1
            /\ lives' = MgmtBecomes(h,
                  [h EXCEPT !.pc = "saveToken", !.accessToken = issued + 1,
                            !.newExpiry = expiry,
                            !.calls = Append(@, Call("refresh", 0, <<>>))])
       ELSE /\ lives' = MgmtBecomes(h,
                  MgmtFinish([h EXCEPT !.calls = Append(@, Call("refresh", 0, <<>>))], failed))
            /\ UNCHANGED issued
    /\ UNCHANGED <<videos, disk, streamVars, tokens, credentials, pubs, now, platform>>
    /\ UNCHANGED oauthVars

CreateRefresh(h, ok, expiry) == h.op = "create" /\ MgmtRefresh(h, ok, expiry, CreateFailed)

MgmtSaveTokenSkipped(h, next) ==
    /\ h.pc = "saveToken"
    /\ lives' = MgmtBecomes(h, [h EXCEPT !.pc = next])
    /\ UNCHANGED <<videos, disk, streamVars, tokens, credentials, pubs, now, issued, platform>>
    /\ UNCHANGED oauthVars

\* routes.ts 864-867, 981-984: storage.updateYoutubeToken
MgmtSaveToken(h, next) ==
    /\ h.pc = "saveToken"
    /\ tokens' = updateYoutubeToken(tokens, h.ch, h.accessToken, h.newExpiry)
    /\ lives' = MgmtBecomes(h, [h EXCEPT !.pc = next])
    /\ UNCHANGED <<videos, disk, streamVars, credentials, pubs, now, issued, platform>>
    /\ UNCHANGED oauthVars

CreateSaveToken(h) == h.op = "create" /\ MgmtSaveToken(h, "broadcast")

\* routes.ts 873-879: createLiveBroadcast returns the broadcast or throws
CreateBroadcast(h, ok) ==
    /\ h.op = "create" /\ h.pc = "broadcast"
    /\ LET n == platform.made + 1
           h2 == [h EXCEPT !.calls = Append(@, Call("broadcast", h.accessToken, <<>>))]
       IN  IF ok
           THEN /\ platform' = [platform EXCEPT !.made = n,
                                                !.broadcasts = @ \cup {BroadcastId(n)}]
                /\ lives' = MgmtBecomes(h, [h2 EXCEPT !.pc = "stream", !.bid = BroadcastId(n)])
           ELSE /\ platform' = platform
                /\ lives' = MgmtBecomes(h, MgmtFinish(h2, CreateFailed))
    /\ UNCHANGED <<videos, disk, streamVars, pubVars>>
    /\ UNCHANGED oauthVars

\* routes.ts 881-885: createLiveStream returns the ingestion stream or throws
CreateIngest(h, ok) ==
    /\ h.op = "create" /\ h.pc = "stream"
    /\ LET n == Cardinality(platform.streams) + 1
           h2 == [h EXCEPT !.calls = Append(@, Call("stream", h.accessToken, <<>>))]
       IN  IF ok
           THEN /\ platform' = [platform EXCEPT !.streams = @ \cup {IngestId(n)}]
                /\ lives' = MgmtBecomes(h, [h2 EXCEPT !.pc = "bind", !.sid = IngestId(n),
                                                      !.key = StreamNames[n]])
           ELSE /\ platform' = platform
                /\ lives' = MgmtBecomes(h, MgmtFinish(h2, CreateFailed))
    /\ UNCHANGED <<videos, disk, streamVars, pubVars>>
    /\ UNCHANGED oauthVars

BindArgsSwapped(h) == <<h.sid, h.bid>>

\* routes.ts 888-892: bindBroadcastToStream(accessToken, broadcast.id, ytStream.id)
BindArgs(h) == <<h.bid, h.sid>>

\* routes.ts 887-892: the bind call answers or throws
CreateBind(h, ok) ==
    /\ h.op = "create" /\ h.pc = "bind"
    /\ LET h2 == [h EXCEPT !.calls = Append(@, Call("bind", h.accessToken, BindArgs(h)))]
       IN  IF ok
           THEN /\ platform' = [platform EXCEPT !.bound = @ \cup {BindArgs(h)}]
                /\ lives' = MgmtBecomes(h, [h2 EXCEPT !.pc = "persist"])
           ELSE /\ platform' = platform
                /\ lives' = MgmtBecomes(h, MgmtFinish(h2, CreateFailed))
    /\ UNCHANGED <<videos, disk, streamVars, pubVars>>
    /\ UNCHANGED oauthVars

\* routes.ts 894-896: rtmpUrl = ingestionAddress + "/" + streamName
ComposeRtmp(url, key) == <<url, "/", key>>

\* The id the store gives the new row
NewRowId(h) == NewIds[h.bid[2]]

\* routes.ts 903-924: storage.createLiveStream and the answer; the insert
\* throws when the video it refers to is gone (part_009 416)
CreatePersist(h) ==
    /\ h.op = "create" /\ h.pc = "persist"
    /\ IF h.vid # NULL /\ h.vid \notin DOMAIN videos
       THEN /\ liveStreams' = liveStreams
            /\ lives' = MgmtBecomes(h, MgmtFinish(h, CreateFailed))
       ELSE /\ liveStreams' =
                  [id \in DOMAIN liveStreams \cup {NewRowId(h)} |->
                      IF id = NewRowId(h)
                      THEN NewLiveStream(h.user, h.ch, h.type, h.vid, h.bid, h.sid, h.key,
                                         IngestionAddress,
                                         ComposeRtmp(IngestionAddress, h.key))
                      ELSE liveStreams[id]]
            /\ lives' = MgmtBecomes(h, MgmtFinish([h EXCEPT !.id = NewRowId(h)],
                                                  "200 created"))
    /\ UNCHANGED <<videos, disk, activeStreams, procs, reqs, cbPending, pubVars, platform>>
    /\ UNCHANGED oauthVars

DeleteCheckLenient(user, id, t) ==
    IF id \notin DOMAIN liveStreams THEN "404 Live stream not found"
    ELSE IF liveStreams[id].userId # user
         THEN "403 Not authorized to delete this live stream"
    ELSE IF liveStreams[id].youtubeBroadcastId = NoId THEN "remove"
    ELSE IF liveStreams[id].channelId \notin DOMAIN tokens THEN "remove"
    ELSE IF ~IsExpired(tokens[liveStreams[id].channelId], t) THEN "platformDelete"
    ELSE IF ~tokens[liveStreams[id].channelId].refreshToken THEN "remove"
    ELSE IF user \notin credentials THEN "remove"
    ELSE "refresh"

\* routes.ts 946-974: the delete route's checks, in order
DeleteCheck(user, id, t) ==
    IF id \notin DOMAIN liveStreams THEN "404 Live stream not found"
    ELSE IF liveStreams[id].userId # user
         THEN "403 Not authorized to delete this live stream"
    ELSE IF liveStreams[id].youtubeBroadcastId = NoId THEN "remove"
    ELSE IF liveStreams[id].channelId \notin DOMAIN tokens THEN "remove"
    ELSE IF ~IsExpired(tokens[liveStreams[id].channelId], t) THEN "platformDelete"
    ELSE IF ~tokens[liveStreams[id].channelId].refreshToken
         THEN "400 Token expired and no refresh token. Please reconnect the channel first."
    ELSE IF user \notin credentials THEN "400 YouTube API credentials not configured"
    ELSE "refresh"

DeleteBroadcastFailed == "500 Failed to delete YouTube broadcast"

\* routes.ts 946-974: stream row, ownership, token and expiry are read
DeleteValidate(h) ==
    /\ h.op = "delete" /\ h.pc = "validate"
    /\ LET res == DeleteCheck(h.user, h.id, now)
       IN  lives' = MgmtBecomes(h,
                IF res \notin {"remove", "platformDelete", "refresh"} THEN MgmtFinish(h, res)
                ELSE IF res = "remove" THEN [h EXCEPT !.pc = "remove"]
                ELSE [h EXCEPT !.pc = res,
                               !.ch = liveStreams[h.id].channelId,
                               !.bid = liveStreams[h.id].youtubeBroadcastId,
                               !.accessToken = tokens[liveStreams[h.id].channelId].accessToken])
    /\ UNCHANGED <<videos, disk, streamVars, pubVars, platform>>
    /\ UNCHANGED oauthVars

DeleteRefresh(h, ok, expiry) ==
    h.op = "delete" /\ MgmtRefresh(h, ok, expiry, DeleteBroadcastFailed)

DeleteSaveToken(h) == h.op = "delete" /\ MgmtSaveToken(h, "platformDelete")

\* routes.ts 987-993: deleteLiveBroadcast answers, or throws (always when the
\* platform has no such broadcast) and the inner catch answers 500
DeleteBroadcast(h, ok) ==
    /\ h.op = "delete" /\ h.pc = "platformDelete"
    /\ ok => h.bid \in platform.broadcasts
    /\ LET h2 == [h EXCEPT !.calls = Append(@, Call("delete", h.accessToken, <<h.bid>>))]
       IN  IF ok
           THEN /\ platform' = [platform EXCEPT !.broadcasts = @ \ {h.bid}]
                /\ lives' = MgmtBecomes(h, [h2 EXCEPT !.pc = "remove"])
           ELSE /\ platform' = platform
                /\ lives' = MgmtBecomes(h, MgmtFinish(h2, DeleteBroadcastFailed))
    /\ UNCHANGED <<videos, disk, streamVars, pubVars>>
    /\ UNCHANGED oauthVars

\* storage.deleteLiveStream (storage.ts 274-277)
deleteLiveStream(rows, id) == [k \in DOMAIN rows \ {id} |-> rows[k]]

\* routes.ts 996-997
DeleteRemove(h) ==
    /\ h.op = "delete" /\ h.pc = "remove"
    /\ liveStreams' = deleteLiveStream(liveStreams, h.id)
    /\ lives' = MgmtBecomes(h, MgmtFinish(h, "200 Live stream deleted successfully"))
    /\ UNCHANGED <<videos, disk, activeStreams, procs, reqs, cbPending, pubVars, platform>>
    /\ UNCHANGED oauthVars

\* storage.deleteVideo (storage.ts 233-236); live_streams.video_id is set
\* null by the foreign key (part_009 416)
deleteVideo(rows, vid) == [k \in DOMAIN rows \ {vid} |-> rows[k]]
videoIdSetNull(rows, vid) ==
    [k \in DOMAIN rows |-> IF rows[k].videoId = vid THEN [rows[k] EXCEPT !.videoId = NULL]
                           ELSE rows[k]]

\* routes.ts 731-741: DELETE /api/videos/:id; the route reads the id, calls
\* storage.deleteVideo and answers; it reads no session user and no video row
DeleteVideo(h) ==
    /\ h.op = "deleteVideo" /\ h.pc = "validate"
    /\ videos' = deleteVideo(videos, h.vid)
    /\ liveStreams' = videoIdSetNull(liveStreams, h.vid)
    /\ lives' = MgmtBecomes(h, MgmtFinish(h, "200 Video deleted successfully"))
    /\ UNCHANGED <<disk, activeStreams, procs, reqs, cbPending, pubVars, platform>>
    /\ UNCHANGED oauthVars

\* The broadcast of the stream that exists from the start
FirstBroadcast == BroadcastId(0)

\* One video of u1 with its file, one live stream of u1 on channel A or B,
\* provisioned on the platform or not; no request in flight
InitLive ==
    /\ videos = [v \in VideoIds |-> VideoRow("u1", VideoFile, NULL)]
    /\ disk = {VideoFileAbs, Passwd}
    /\ \E c \in {"A", "B"}, b \in {NoId, FirstBroadcast} :
          /\ liveStreams = [id \in StreamIds |->
                NewLiveStream("u1", c, "video", "v1", b, NoId, "key", "rtmp://in",
                              ComposeRtmp("rtmp://in", "key"))]
          /\ platform = [NoPlatform EXCEPT !.broadcasts = IF b = NoId THEN {} ELSE {b}]
    /\ activeStreams = <<>> /\ procs = <<>> /\ reqs = EmptyBag
    /\ cbPending = [id \in StreamIds |-> 0]
    /\ tokens \in TokenTables
    /\ credentials \in {{"u1"}, {}}
    /\ pubs = EmptyBag /\ now = StartTime /\ issued = 0
    /\ InitOauthIdle
    /\ lives = EmptyBag

NextLive ==
    \/ \E u \in Users, c \in ChannelIds, ty \in {"video", "rtmp"}, v \in VideoIds \cup {NULL} :
          NewMgmt("create", u, c, ty, v, NULL)
    \/ \E u \in Users, id \in StreamIds \cup {NewIds[1]} :
          NewMgmt("delete", u, NULL, NULL, NULL, id)
    \/ \E u \in Users, v \in VideoIds : NewMgmt("deleteVideo", u, NULL, NULL, v, NULL)
    \/ Tick
    \/ \E h \in MgmtHandlers : CreateValidate(h)
    \/ \E h \in MgmtHandlers, ok \in BOOLEAN, e \in Expiries : CreateRefresh(h, ok, e)
    \/ \E h \in MgmtHandlers : CreateSaveToken(h)
    \/ \E h \in MgmtHandlers, ok \in BOOLEAN : CreateBroadcast(h, ok)
    \/ \E h \in MgmtHandlers, ok \in BOOLEAN : CreateIngest(h, ok)
    \/ \E h \in MgmtHandlers, ok \in BOOLEAN : CreateBind(h, ok)
    \/ \E h \in MgmtHandlers : CreatePersist(h)
    \/ \E h \in MgmtHandlers : DeleteValidate(h)
    \/ \E h \in MgmtHandlers, ok \in BOOLEAN, e \in Expiries : DeleteRefresh(h, ok, e)
    \/ \E h \in MgmtHandlers : DeleteSaveToken(h)
    \/ \E h \in MgmtHandlers, ok \in BOOLEAN : DeleteBroadcast(h, ok)
    \/ \E h \in MgmtHandlers : DeleteRemove(h)
    \/ \E h \in MgmtHandlers : DeleteVideo(h)

SpecLive == InitLive /\ [][NextLive]_vars

\* ================================================================ delete while streaming
\* The owner's start of s1 has succeeded: its process runs, is tracked, and
\* the row is live (routes.ts 1047-1059).  The row has no platform broadcast.
InitRunning ==
    /\ liveStreams = [id \in StreamIds |->
          [LiveStreamRow("u1", "video", "v1") EXCEPT !.status = "live",
                                                     !.actualStartTime = Stamp]]
    /\ videos = [v \in VideoIds |-> VideoRow("u1", VideoFile, NULL)]
    /\ disk = {VideoFileAbs, Passwd}
    /\ procs = <<NewProc("s1", TRUE)>>
    /\ activeStreams = [id \in StreamIds |->
          ActiveStream(Len(procs), id, AbsoluteVideoPath(VideoFile),
                       RtmpUrl(LiveStreamRow("u1", "video", "v1")))]
    /\ reqs = EmptyBag
    /\ cbPending = [id \in StreamIds |-> 0]
    /\ InitPubIdle
    /\ InitMgmtIdle
    /\ InitOauthIdle

\* Delete and stop requests on the stream, and the events of its process
NextRunning ==
    \/ \E u \in Users, id \in StreamIds : NewMgmt("delete", u, NULL, NULL, NULL, id)
    \/ \E h \in MgmtHandlers : DeleteValidate(h)
    \/ \E h \in MgmtHandlers : DeleteRemove(h)
    \/ \E u \in Users, id \in StreamIds : NewRequest("stop", u, id)
    \/ \E r \in Handlers : StopStream(r)
    \/ \E r \in Handlers : StopWrite(r)
    \/ \E p \in Pids : KillTimer(p)
    \/ \E p \in Pids : ProcExit(p)
    \/ \E p \in Pids : ProcClose(p)
    \/ \E id \in StreamIds : CallbackWrite(id)

SpecRunning == InitRunning /\ [][NextRunning]_vars

\* ================================================================ channels
\* In this part youtube_channels and youtube_tokens are tables of rows with
\* generated ids, as the OAuth callback and the disconnect route write them.
ChannelRowId(n) == <<"c", n>>
TokenRowId(n) == <<"t", n>>

\* What channels.list answers for the authorising account (youtube.ts 61-70)
PlatformChannelLists == {<<>>, <<"P">>, <<"P", "Q">>}

Oauth(op, user, id, list) ==
    [op |-> op, user |-> user, id |-> id, list |-> list,
     pc |-> "validate", res |-> NULL, i |-> 1, ch |-> NoId, revoked |-> NULL]

OauthHandlers == BagToSet(oauths)
OauthBecomes(h, h2) == (oauths (-) SetToBag({h})) (+) SetToBag({h2})
OauthFinish(h, res) == [h EXCEPT !.pc = "done", !.res = res, !.i = 1, !.ch = NoId]

\* GET /api/youtube/oauth/callback with a valid state, or
\* DELETE /api/youtube/channels/:id, arrives
NewOauth(op, user, id, list) ==
    /\ BagCardinality(oauths) < MaxOauths
    /\ oauths' = oauths (+) SetToBag({Oauth(op, user, id, list)})
    /\ UNCHANGED <<channels, tokenRows, uuids>>
    /\ UNCHANGED <<videos, disk, streamVars, pubVars, mgmtVars>>

\* routes.ts 272-276: the callback needs the user's credentials
ConnValidate(h) ==
    /\ h.op = "connect" /\ h.pc = "validate"
    /\ oauths' = OauthBecomes(h,
            IF h.user \notin credentials THEN OauthFinish(h, "redirect missing_credentials")
            ELSE [h EXCEPT !.pc = "fetch"])
    /\ UNCHANGED <<channels, tokenRows, uuids>>
    /\ UNCHANGED <<videos, disk, streamVars, pubVars, mgmtVars>>

\* routes.ts 288-291: getTokenFromCode and getUserChannels; a throw of either
\* goes to the catch (314-317)
ConnFetch(h, ok) ==
    /\ h.op = "connect" /\ h.pc = "fetch"
    /\ oauths' = OauthBecomes(h,
            IF ~ok THEN OauthFinish(h, "redirect oauth_failed")
            ELSE IF h.list = <<>> THEN OauthFinish(h, "redirect success")
            ELSE [h EXCEPT !.pc = "channel"])
    /\ UNCHANGED <<channels, tokenRows, uuids>>
    /\ UNCHANGED <<videos, disk, streamVars, pubVars, mgmtVars>>

\* storage.createYoutubeChannel (storage.ts 178-185): a row with a generated
\* id; the index on (user_id, channel_id) is not unique (part_009 361)
createYoutubeChannel(rows, id, user, ytId) ==
    MapSet(rows, id, [userId |-> user, channelId |-> ytId])

\* routes.ts 295-304
ConnCreateChannel(h) ==
    /\ h.op = "connect" /\ h.pc = "channel"
    /\ uuids' = uuids + 1
    /\ channels' = createYoutubeChannel(channels, ChannelRowId(uuids + 1), h.user, h.list[h.i])
    /\ oauths' = OauthBecomes(h, [h EXCEPT !.pc = "token", !.ch = ChannelRowId(uuids + 1)])
    /\ UNCHANGED tokenRows
    /\ UNCHANGED <<videos, disk, streamVars, pubVars, mgmtVars>>

\* youtube_tokens.channel_id references youtube_channels.id and is unique
\* (part_009 371): the insert is refused otherwise
TokenInsertAccepted(rows, chs, c) ==
    c \in DOMAIN chs /\ ~\E t \in rows : t.channelId = c

\* routes.ts 307-313: storage.createYoutubeToken (storage.ts 139-146); a
\* refused insert throws to the catch (314-317)
ConnCreateToken(h) ==
    /\ h.op = "connect" /\ h.pc = "token"
    /\ IF TokenInsertAccepted(tokenRows, channels, h.ch)
       THEN /\ uuids' = uuids + 1
            /\ tokenRows' = tokenRows \cup {[id |-> TokenRowId(uuids + 1), channelId |-> h.ch]}
            /\ oauths' = OauthBecomes(h,
                    IF h.i < Len(h.list) THEN [h EXCEPT !.pc = "channel", !.i = @ + 1]
                    ELSE OauthFinish(h, "redirect success"))
       ELSE /\ oauths' = OauthBecomes(h, OauthFinish(h, "redirect oauth_failed"))
            /\ UNCHANGED <<tokenRows, uuids>>
    /\ UNCHANGED channels
    /\ UNCHANGED <<videos, disk, streamVars, pubVars, mgmtVars>>

\* routes.ts 341-357: ownership, then the token and the credentials are read
DiscValidate(h) ==
    /\ h.op = "disconnect" /\ h.pc = "validate"
    /\ oauths' = OauthBecomes(h,
            IF h.id \notin DOMAIN channels \/ channels[h.id].userId # h.user
            THEN OauthFinish(h, "404 Channel not found")
            ELSE IF (\E t \in tokenRows : t.channelId = h.id) /\ h.user \in credentials
                 THEN [h EXCEPT !.pc = "revoke"]
                 ELSE [h EXCEPT !.pc = "delete"])
    /\ UNCHANGED <<channels, tokenRows, uuids>>
    /\ UNCHANGED <<videos, disk, streamVars, pubVars, mgmtVars>>

\* routes.ts 364-372: revokeToken; its failure is caught and logged
DiscRevoke(h, ok) ==
    /\ h.op = "disconnect" /\ h.pc = "revoke"
    /\ oauths' = OauthBecomes(h, [h EXCEPT !.pc = "delete", !.revoked = IF ok THEN "ok" ELSE "failed"])
    /\ UNCHANGED <<channels, tokenRows, uuids>>
    /\ UNCHANGED <<videos, disk, streamVars, pubVars, mgmtVars>>

cascadeNone(rows, c) == rows

\* part_009 371: onDelete cascade of youtube_tokens.channel_id
cascade(rows, c) == {t \in rows : t.channelId # c}

\* routes.ts 375-376: storage.deleteYoutubeChannel (storage.ts 197-200)
DiscDelete(h) ==
    /\ h.op = "disconnect" /\ h.pc = "delete"
    /\ channels' = MapDelete(channels, h.id)
    /\ tokenRows' = cascade(tokenRows, h.id)
    /\ oauths' = OauthBecomes(h, OauthFinish(h, "200 Channel disconnected successfully"))
    /\ UNCHANGED uuids
    /\ UNCHANGED <<videos, disk, streamVars, pubVars, mgmtVars>>

\* u1 has or has not stored credentials; no channel is connected yet, or
\* one connected channel of u1 with its token
InitOAuth ==
    /\ InitStore /\ lives = EmptyBag /\ platform = NoPlatform
    /\ tokens = <<>> /\ pubs = EmptyBag /\ now = StartTime /\ issued = 0
    /\ videos = [v \in VideoIds |-> VideoRow("u1", VideoFile, NULL)]
    /\ disk = {VideoFileAbs, Passwd}
    /\ credentials \in {{"u1"}, {}}
    /\ oauths = EmptyBag
    /\ uuids = 0
    /\ \/ channels = <<>> /\ tokenRows = {}
       \/ /\ channels = createYoutubeChannel(<<>>, ChannelRowId(0), "u1", "P")
          /\ tokenRows = {[id |-> TokenRowId(0), channelId |-> ChannelRowId(0)]}

NextOAuth ==
    \/ \E u \in Users, list \in PlatformChannelLists : NewOauth("connect", u, NoId, list)
    \/ \E u \in Users, n \in 0..1 : NewOauth("disconnect", u, ChannelRowId(n), <<>>)
    \/ \E h \in OauthHandlers : ConnValidate(h)
    \/ \E h \in OauthHandlers, ok \in BOOLEAN : ConnFetch(h, ok)
    \/ \E h \in OauthHandlers : ConnCreateChannel(h)
    \/ \E h \in OauthHandlers : ConnCreateToken(h)
    \/ \E h \in OauthHandlers : DiscValidate(h)
    \/ \E h \in OauthHandlers, ok \in BOOLEAN : DiscRevoke(h, ok)
    \/ \E h \in OauthHandlers : DiscDelete(h)

SpecOAuth == InitOAuth /\ [][NextOAuth]_vars

\* ================================================================ claims
AllHandlersDone == \A r \in Handlers : r.pc = "done"
Started(id) == \E r \in Handlers : r.op = "start" /\ r.id = id /\ r.res = "200 started"
ProcsOf(id) == {p \in Pids : procs[p].stream = id}

\* C1: for every LiveStream id, at most one re-streaming process started for
\* that id is alive (spawned and not yet exited) in every reachable state.
C1_AtMostOneAlive == \A id \in StreamIds : Cardinality(AliveFor(id)) <= 1

\* The real location of an absolute path lies outside the upload root
OutsideUploads(absPath) ==
    EscapesUploads(relative(realpath(uploadsDir), realpath(absPath)))

PastPathCheck(r) ==
    /\ r.op = "start"
    /\ r.pc = "write" \/ (r.pc = "done" /\ r.res \in {"200 started", PathError})

\* C2: a start whose video path really lies outside the upload root, the file
\* existing and realpath succeeding, fails with the path-validation error and
\* spawns no process.
C2_EscapeRejected ==
    \A r \in Handlers :
        PastPathCheck(r) /\ r.realOk /\ OutsideUploads(r.path)
            => r.res = PathError /\ r.proc = 0

\* C3: once every process of a started video stream has exited and been
\* reported, and every handler and end-callback write has completed, the
\* persisted status is `complete` with an end timestamp.
C3_ExitReconciled ==
    \A id \in StreamIds :
        ( /\ Started(id)
          /\ \A p \in ProcsOf(id) : procs[p].state \in {"closed", "errored"}
          /\ AllHandlersDone
          /\ cbPending[id] = 0 )
        => /\ liveStreams[id].status = "complete"
           /\ liveStreams[id].actualEndTime # NULL

\* C5: five seconds after stop, a process that has not exited is sent the
\* forced termination signal: once the timer of a stopped process has fired,
\* the process has exited or SIGKILL has been delivered to it.
C5_ForcedAfterGrace ==
    \A p \in Pids :
        procs[p].timer = "fired" /\ procs[p].state = "running"
            => "SIGKILL" \in procs[p].signals

\* The process a successful start spawned for id is the one tracked
TrackedStarted(id) ==
    /\ id \in DOMAIN activeStreams
    /\ \E r0 \in Handlers : /\ r0.op = "start" /\ r0.id = id /\ r0.res = "200 started"
                            /\ r0.proc = activeStreams[id].process

\* C6: while the process of a successful start is tracked, the registry check
\* of a further start for the same id answers already-running, spawns
\* nothing and leaves the registry entry and the persisted row as they are.
C6_SecondStartRejected ==
    [][\A r \in Handlers :
          StartCheck(r) /\ StartRouteResult(r.user, r.id) = "ok" /\ TrackedStarted(r.id)
            => /\ reqs' = Finish(r, "500 Stream is already running")
               /\ UNCHANGED <<procs, activeStreams, liveStreams>>]_vars

C6_Witness ==
    \E r \in Handlers :
        /\ r.op = "start" /\ r.res = "500 Stream is already running"
        /\ TrackedStarted(r.id)
        /\ Cardinality(ProcsOf(r.id)) = 1

\* Every process of id exited by itself, its exit was reported through the
\* end callback, and nothing else is in flight
CrashedAndReported(id) ==
    /\ Started(id)
    /\ \A p \in ProcsOf(id) : /\ procs[p].launched /\ procs[p].state = "closed"
                               /\ procs[p].signals = {} /\ procs[p].timer = "none"
    /\ cbPending[id] = 0
    /\ \A r \in Handlers : r.pc = "done" \/ (r.op = "stop" /\ r.pc = "route")

\* C7: after the tracked process crashed and the end callback has run, a
\* stop fails with not-running, signals nothing, changes neither registry
\* nor row, and the row's status is `complete`.
C7_StopAfterCrash ==
    [][\A r \in Handlers :
          StopStream(r) /\ StopRouteResult(r.user, r.id) = "ok" /\ CrashedAndReported(r.id)
            => /\ reqs' = Finish(r, "400 Stream is not currently running")
               /\ UNCHANGED <<procs, activeStreams, liveStreams>>
               /\ liveStreams[r.id].status = "complete"]_vars

PublishOk == "200 Video published successfully"
PremiereOk == "200 Premiere scheduled successfully"

\* A publish or premiere of the video has answered with success
Succeeded(vid) ==
    \E g \in PubHandlers : g.vid = vid /\ g.pc = "done" /\ g.res \in {PublishOk, PremiereOk}

\* C4: once a publish or premiere of a video has succeeded (its file is
\* removed), the checks of every later publish or premiere request of the
\* owner (for a premiere: with a time far enough ahead) end the request with
\* the file-not-found error.
C4_RepublishRejected ==
    [][\A h \in PubHandlers :
          /\ Succeeded(h.vid)
          /\ h.user = videos[h.vid].userId
          /\ PubValidate(h) \/ (PremValidate(h) /\ h.sched >= now + FiveMinutes)
          => pubs' = PubBecomes(h, PubFinish(h, "400 Video file not found"))]_vars

HasForeign(h) == \E k \in 1..Len(h.channelIds) : ~OwnsChannel(h.user, h.channelIds[k])

\* The handler has read no token, made no call and written nothing
Untouched(h) == h.pc \in {"validate", "done"} /\ h.ext = 0 /\ h.log = <<>> /\ h.published = <<>>

\* C8: a publish request naming a channel that is not the caller's, in any
\* position, never gets past the checks: it reads no token, makes no call to
\* the platform, never reaches the record update or the file removal, and is
\* answered with a refusal.
C8_ForeignChannelRejected ==
    \A h \in PubHandlers :
        h.op = "publish" /\ HasForeign(h) =>
            /\ Untouched(h)
            /\ h.pc = "done" =>
                  h.res \in {"404 Video not found", "403 Not authorized to publish this video",
                             "400 Video file not found",
                             "403 Channel not found or not authorized"}

C8_Witness ==
    \E h \in PubHandlers :
        /\ h.op = "publish" /\ h.pc = "done" /\ h.user = "u1"
        /\ h.channelIds = <<"A", "X">>
        /\ h.res = "403 Channel not found or not authorized"
        /\ videos[h.vid] = VideoRow("u1", VideoFile, Thumbnail)
        /\ VideoFileAbs \in disk

\* C9: a publish request for a video whose file path is null never gets past
\* the checks: the owner is answered "Video file not found", no call to the
\* platform is made and the video record stays as it was.
C9_NullPathRejected ==
    \A h \in PubHandlers :
        h.op = "publish" /\ h.vid \in DOMAIN videos /\ videos[h.vid].filePath = NoPath =>
            /\ Untouched(h)
            /\ videos[h.vid] = VideoRow("u1", NoPath, NULL)
            /\ h.pc = "done" =>
                  h.res = IF h.user = videos[h.vid].userId THEN "400 Video file not found"
                          ELSE "403 Not authorized to publish this video"

C9_Witness ==
    \E h \in PubHandlers :
        /\ h.op = "publish" /\ h.pc = "done" /\ h.user = "u1"
        /\ h.channelIds = <<"A", "B">> /\ "u1" \in credentials
        /\ videos[h.vid].filePath = NoPath
        /\ h.res = "400 Video file not found"

\* The requested channels whose attempt ended with an id, in request order
Uploaded(h) ==
    LET idx == SelectSeq([k \in 1..Len(h.log) |-> k], LAMBDA k : h.log[k] = "uploaded")
    IN  [j \in 1..Len(idx) |-> h.channelIds[idx[j]]]

InLoop(h) == h.pc \in {"token", "refresh", "saveToken", "upload"}
LoopOver(h) == h.pc \in {"update", "unlink"} \/ (h.pc = "done" /\ h.res = PublishOk)

\* C10: in a publish request every channel before the current one has been
\* attempted whatever became of the earlier ones, every requested channel has
\* been attempted when the loop is over, and publishedChannels is the list,
\* in request order, of the channels whose upload returned an id.
C10_LaterChannelsAttempted ==
    \A h \in PubHandlers :
        h.op = "publish" =>
            /\ InLoop(h) => Len(h.log) = h.i - 1 /\ h.i <= Len(h.channelIds)
            /\ InLoop(h) \/ LoopOver(h) => h.published = Uploaded(h)
            /\ LoopOver(h) => Len(h.log) = Len(h.channelIds)

C10_Witness ==
    \E h \in PubHandlers :
        /\ h.op = "publish" /\ h.pc = "done" /\ h.res = PublishOk
        /\ h.channelIds = <<"B", "A">>
        /\ h.log = <<"no_refresh_token", "uploaded">>
        /\ h.published = <<"A">>
        /\ videos[h.vid].publishedChannels = <<"A">>

\* C11: when the video insert succeeded and the thumbnail call failed, the
\* upload still counts: a publish request lists the channel as published and
\* a premiere request does not fail.
C11_ThumbnailFailureTolerated ==
    \A h \in PubHandlers :
        \A k \in 1..Len(h.log) :
            h.log[k] = "thumbnail_failed" =>
                /\ h.op = "publish" =>
                      \E j \in 1..Len(h.published) : h.published[j] = h.channelIds[k]
                /\ h.op = "premiere" => h.res # PremiereFailed

TimeRefusals ==
    {"400 Scheduled time must be in the future",
     "400 Scheduled time must be at least 5 minutes in the future"}

\* C13: the checks of a premiere request whose time is under now + 5 minutes
\* end it with a refusal on the time and change nothing; a time of now + 5
\* minutes or more is not refused on the time; a request refused on the time
\* has made no call to the platform.
C13_LeadTimeEnforced ==
    /\ [][\A h \in PubHandlers :
            PremValidate(h) =>
                IF h.sched < now + FiveMinutes
                THEN /\ \E res \in TimeRefusals : pubs' = PubBecomes(h, PubFinish(h, res))
                     /\ UNCHANGED <<videos, disk, tokens, issued>>
                ELSE \A res \in TimeRefusals : pubs' # PubBecomes(h, PubFinish(h, res))]_vars
    /\ [](\A h \in PubHandlers :
            h.res \in TimeRefusals => h.ext = 0 /\ h.log = <<>> /\ h.ytIds = <<>>)

C13_Witness ==
    /\ \E h \in PubHandlers :
          /\ h.op = "premiere" /\ h.user = "u1" /\ h.sched = StartTime + FiveMinutes - 1
          /\ h.res = "400 Scheduled time must be at least 5 minutes in the future"
    /\ \E h \in PubHandlers :
          /\ h.op = "premiere" /\ h.pc = "validate" /\ h.sched = now + FiveMinutes
          /\ PremiereCheck(h.user, h.vid, h.channelIds[1], h.sched, now) = "ok"

PremiereFields(v) ==
    <<v.premiereScheduledTime, v.premiereChannelId, v.youtubeVideoId, v.premiereStatus,
      v.status>>

\* C14: in a premiere request the record update that follows a returned id
\* writes the premiere fields and leaves the file; the file is removed only
\* by the step after it; a failed refresh, upload (thumbnail call included)
\* or record update ends the request with the file and the record untouched;
\* a handler about to remove the file, or answered with success, holds an id
\* and the record says scheduled.
C14_UnlinkAfterPersist ==
    /\ [][\A h \in PubHandlers :
            /\ PremUpdate(h, TRUE) =>
                  /\ PremiereFields(videos'[h.vid]) =
                        <<h.sched, h.channelIds[1], h.ytIds[1].id, "scheduled",
                          "premiere_scheduled">>
                  /\ disk' = disk
            /\ (h.op = "premiere" /\ pubs' = PubBecomes(h, PubFinish(h, PremiereFailed))) =>
                  disk' = disk /\ videos' = videos
            /\ (\/ PremValidate(h) \/ PremSaveToken(h)
                \/ \E ok \in BOOLEAN, e \in Expiries : PremRefresh(h, ok, e)
                \/ \E out \in {"uploaded", "upload_failed", "no_id", "thumbnail_failed"} :
                      PremUpload(h, out)
                \/ \E ok \in BOOLEAN : PremUpdate(h, ok)) => disk' = disk]_vars
    /\ [](\A h \in PubHandlers :
            h.op = "premiere" =>
                /\ h.res = PremiereFailed /\ h.log # <<>> =>
                      h.log[1] # "uploaded" \/ h.ytIds # <<>>
                /\ h.pc = "unlink" \/ h.res = PremiereOk =>
                      /\ h.ytIds # <<>> /\ h.log = <<"uploaded">>
                      /\ videos[h.vid].premiereStatus = "scheduled"
                      /\ videos[h.vid].premiereScheduledTime # NoTime)

C14_Witness ==
    /\ \E h \in PubHandlers :
          /\ h.op = "premiere" /\ h.res = PremiereFailed
          /\ h.log = <<"thumbnail_failed">>
    /\ \E h \in PubHandlers :
          /\ h.op = "premiere" /\ h.res = PremiereFailed
          /\ h.log = <<"uploaded">>
    /\ VideoFileAbs \in disk
    /\ videos["v1"].status = "draft"

\* The platform calls of a handler other than token refreshes, in order
Apis(h) ==
    LET kept == SelectSeq(h.calls, LAMBDA c : c.api # "refresh")
    IN  [k \in 1..Len(kept) |-> kept[k].api]

Provisioning == <<"broadcast", "stream", "bind">>

IsPrefix(a, b) == Len(a) <= Len(b) /\ \A k \in 1..Len(a) : a[k] = b[k]

\* C15: a create handler calls the platform in the order broadcast, stream,
\* bind, and bind is given the ids the two earlier calls returned; the row is
\* stored by a handler that made all three calls, with status created, the
\* returned ids, key and URL, and rtmpUrl = URL + "/" + key; a handler that
\* did not answer with success has stored no row.
C15_ProvisioningOrder ==
    /\ [][\A h \in MgmtHandlers :
            CreatePersist(h) /\ liveStreams' # liveStreams =>
                /\ Apis(h) = Provisioning
                /\ NewRowId(h) \notin DOMAIN liveStreams
                /\ liveStreams'[NewRowId(h)] =
                      NewLiveStream(h.user, h.ch, h.type, h.vid, h.bid, h.sid, h.key,
                                    IngestionAddress, <<IngestionAddress, "/", h.key>>)
                /\ liveStreams'[NewRowId(h)].status = "created"]_vars
    /\ [](\A h \in MgmtHandlers :
            h.op = "create" =>
                /\ IsPrefix(Apis(h), Provisioning)
                /\ \A k \in 1..Len(h.calls) :
                      h.calls[k].api = "bind" =>
                          /\ h.calls[k].args = <<h.bid, h.sid>>
                          /\ h.sid \in platform.streams
                          /\ h.bid[1] = "b" /\ h.sid[1] = "i"
                /\ h.pc = "done" /\ h.res # "200 created" =>
                      \A id \in DOMAIN liveStreams :
                          h.bid = NoId \/ liveStreams[id].youtubeBroadcastId # h.bid)
    /\ [](\A id \in DOMAIN liveStreams \ StreamIds :
            <<liveStreams[id].youtubeBroadcastId, liveStreams[id].youtubeStreamId>>
                \in platform.bound)

C15_Witness ==
    \E h \in MgmtHandlers :
        /\ h.op = "create" /\ h.res = "200 created"
        /\ Len(h.calls) = 4 /\ h.calls[1].api = "refresh"
        /\ h.id \in DOMAIN liveStreams
        /\ liveStreams[h.id].rtmpUrl = <<"rtmp://yt", "/", h.key>>
        /\ \E g \in MgmtHandlers :
              g.op = "create" /\ g.res = CreateFailed /\ Apis(g) = Provisioning

\* The expiry test as the claim words it
PastExpiry(token) == token.expiresAt # NoTime /\ token.expiresAt <= now

PlatformApis == {"broadcast", "stream", "bind", "delete"}
Refreshed(h) == \E k \in 1..Len(h.calls) : h.calls[k].api = "refresh"

RefreshedAndInWindow(c) ==
    /\ c \in DOMAIN tokens
    /\ tokens[c].accessToken # 0
    /\ (tokens[c].granted = NoTime \/ now < tokens[c].granted)

\* C17: once the store holds a refreshed token for a channel, an operation
\* that reads the channel's token before the granted expiry goes straight to
\* its platform call with the stored access token, whatever expiry the
\* refresh response carried (none included).
C17_NoSecondRefresh ==
    /\ [][\A h \in PubHandlers :
            /\ (PubToken(h) /\ RefreshedAndInWindow(h.channelIds[h.i])) =>
                  pubs' = PubBecomes(h, [h EXCEPT !.pc = "upload",
                            !.accessToken = tokens[h.channelIds[h.i]].accessToken])
            /\ (PremValidate(h)
                  /\ PremiereCheck(h.user, h.vid, h.channelIds[1], h.sched, now) = "ok"
                  /\ RefreshedAndInWindow(h.channelIds[1])) =>
                  \E g \in DOMAIN pubs' :
                      g.pc = "upload" /\ g.accessToken = tokens[h.channelIds[1]].accessToken]_vars
    /\ [][\A h \in MgmtHandlers :
            (CreateValidate(h) /\ CreateCheck(h.user, h.ch, h.type, h.vid, now) = "refresh"
                => ~RefreshedAndInWindow(h.ch))]_vars

NoCredentials == "400 YouTube API credentials not configured"
NeedsRefresh(c) == c \in DOMAIN tokens /\ PastExpiry(tokens[c])

\* C18: a publish, premiere or live-stream creation is refused for missing
\* OAuth client credentials only when a channel it names has an expired
\* token, i.e. only when a refresh is actually needed.
C18_CredentialsOnlyForRefresh ==
    /\ [][\A h \in PubHandlers :
            /\ (PubValidate(h) /\ PublishCheck(h.user, h.vid, h.channelIds) = NoCredentials) =>
                  \E k \in 1..Len(h.channelIds) : NeedsRefresh(h.channelIds[k])
            /\ (PremValidate(h)
                  /\ PremiereCheck(h.user, h.vid, h.channelIds[1], h.sched, now) = NoCredentials) =>
                  NeedsRefresh(h.channelIds[1])]_vars
    /\ [][\A h \in MgmtHandlers :
            (CreateValidate(h) /\ CreateCheck(h.user, h.ch, h.type, h.vid, now) = NoCredentials) =>
                NeedsRefresh(h.ch)]_vars
\* The stored, on-disk, registered and platform state a refused call must keep
Kept == <<videos, disk, liveStreams, activeStreams, procs, tokens, platform>>

\* C19: a step taken for a caller who does not own the video, channel or
\* live stream the call refers to changes nothing in the store, the files,
\* the registry or the platform, and the call ends refused.
C19_ForeignCallerRejected ==
    [][\A h \in MgmtHandlers :
          /\ (DeleteVideo(h) /\ h.vid \in DOMAIN videos /\ videos[h.vid].userId # h.user) =>
                /\ Kept' = Kept
                /\ \E g \in DOMAIN lives' : g.pc = "done" /\ g.res \notin {NULL, "200 Video deleted successfully"}
          /\ (DeleteValidate(h) /\ h.id \in DOMAIN liveStreams
                  /\ liveStreams[h.id].userId # h.user) =>
                /\ Kept' = Kept
                /\ DeleteCheck(h.user, h.id, now) = "403 Not authorized to delete this live stream"
          /\ (CreateValidate(h) /\ ~OwnsChannel(h.user, h.ch)) =>
                /\ Kept' = Kept
                /\ CreateCheck(h.user, h.ch, h.type, h.vid, now)
                      = "403 Channel not found or not authorized"]_vars

\* C20: the stored status of a video-type live stream changes only from
\* created to live and from live to complete; in particular a stream that
\* is complete is never live again.
C20_StatusOrder ==
    [][\A id \in DOMAIN liveStreams :
          (id \in DOMAIN liveStreams' /\ liveStreams[id].streamType = "video"
              /\ liveStreams'[id].status # liveStreams[id].status) =>
                <<liveStreams[id].status, liveStreams'[id].status>>
                    \in {<<"created", "live">>, <<"live", "complete">>}]_vars

\* The end-callback invocations made for process p so far: one by the
\* 'error' handler if it failed to launch, one by the 'close' handler
EndCalls(p) ==
    (IF procs[p].launched THEN 0 ELSE 1) + (IF procs[p].state = "closed" THEN 1 ELSE 0)

\* C21: for every process spawned by start the end callback is invoked at
\* most once, whether it exits or fails to launch, and the step that
\* invokes it leaves no registry entry for the stream id.
C21_CallbackOncePerProcess ==
    /\ [](\A p \in Pids : EndCalls(p) <= 1)
    /\ [][\A p \in Pids : ProcClose(p) =>
            /\ procs[p].stream \notin DOMAIN activeStreams'
            /\ cbPending'[procs[p].stream] = cbPending[procs[p].stream] + 1]_vars

\* C22: every registry entry and every process spawned belongs to a live
\* stream of type video; start and stop requests on an rtmp-type stream
\* leave the registry and the processes as they are.
C22_RegistryVideoOnly ==
    /\ [](\A id \in DOMAIN activeStreams : liveStreams[id].streamType = "video")
    /\ [](\A p \in Pids : liveStreams[procs[p].stream].streamType = "video")
    /\ [][\A r \in Handlers :
            ((StartCheck(r) \/ StopStream(r)) /\ r.id \in DOMAIN liveStreams
                /\ liveStreams[r.id].streamType = "rtmp") =>
                    (activeStreams' = activeStreams /\ procs' = procs
                        /\ ~\E g \in DOMAIN reqs' : g.pc \notin {"route", "done"})]_vars

C22_Witness ==
    /\ liveStreams["s1"].streamType = "rtmp"
    /\ \E r \in Handlers : r.op = "start" /\ r.user = "u1"
            /\ r.res = "400 only for video-based streams"
    /\ \E r \in Handlers : r.op = "stop" /\ r.user = "u1"
            /\ r.res = "400 Stream is not currently running"

C24_TokenBelongsToChannel ==
    /\ [](\A t \in tokenRows : t.channelId \in DOMAIN channels)
    /\ [](\A t, u \in tokenRows : t.channelId = u.channelId => t = u)
    /\ [][\A h \in OauthHandlers :
            /\ DiscDelete(h) =>
                  /\ h.id \notin DOMAIN channels'
                  /\ ~\E t \in tokenRows' : t.channelId = h.id
            /\ DiscRevoke(h, FALSE) =>
                  \E g \in DOMAIN oauths' : g.pc = "delete" /\ g.id = h.id /\ g.revoked = "failed"
       ]_vars

\* A disconnect whose revocation failed has removed a channel that had a
\* token, while another channel keeps its own token
C24_Witness ==
    /\ \E h \in OauthHandlers :
          /\ h.op = "disconnect" /\ h.revoked = "failed"
          /\ h.res = "200 Channel disconnected successfully"
          /\ h.id \notin DOMAIN channels
    /\ \E t \in tokenRows : t.channelId \in DOMAIN channels

ReconnectPremiere == "400 Token expired. Please reconnect the channel."
ReconnectCreate ==
    "400 Token expired and no refresh token. Please reconnect the channel."
ExpiredForGoodNow(c) ==
    c \in DOMAIN tokens /\ PastExpiry(tokens[c]) /\ ~tokens[c].refreshToken

\* C25: a premiere or a live-stream creation that is otherwise valid and
\* names a channel whose token is expired and has no refresh token ends, in
\* its validation step, with the message to reconnect the channel, and the
\* step changes neither the store nor the files nor the platform.
C25_ReconnectRequired ==
    /\ [][\A h \in PubHandlers :
            (PremValidate(h) /\ ExpiredForGoodNow(h.channelIds[1])
                /\ PremiereCheck(h.user, h.vid, h.channelIds[1], h.sched, now)
                        \in {ReconnectPremiere, NoCredentials}) =>
                /\ pubs' = PubBecomes(h, PubFinish(h, ReconnectPremiere))
                /\ UNCHANGED <<videos, disk, tokens, issued>>]_vars
    /\ [][\A h \in MgmtHandlers :
            (CreateValidate(h) /\ ExpiredForGoodNow(h.ch)
                /\ CreateCheck(h.user, h.ch, h.type, h.vid, now)
                        \in {ReconnectCreate, NoCredentials}) =>
                /\ lives' = MgmtBecomes(h, MgmtFinish(h, ReconnectCreate))
                /\ UNCHANGED <<videos, disk, tokens, issued, liveStreams, platform>>]_vars

\* The preconditions of a start, stated on the rows: the reason a start
\* request of user for stream id is refused, if any
Unstartable(id) ==
    \/ liveStreams[id].streamType # "video"
    \/ liveStreams[id].videoId = NULL
    \/ liveStreams[id].videoId \notin DOMAIN videos
    \/ videos[liveStreams[id].videoId].filePath = NoPath
    \/ liveStreams[id].streamUrl = NULL \/ liveStreams[id].streamKey = NULL
    \/ id \in DOMAIN activeStreams

\* C26: a start request refused for a precondition (type, video, file path,
\* ingestion url or key, already running, file missing on disk) ends in the
\* step that refuses it, which leaves the processes, the registry and the
\* stored rows as they are; a handler that was refused has spawned nothing.
C26_RejectedStartNoEffect ==
    /\ [][\A r \in Handlers :
            /\ (StartCheck(r) /\ r.id \in DOMAIN liveStreams /\ Unstartable(r.id)) =>
                  /\ \E g \in DOMAIN reqs' : g.pc = "done" /\ g.op = "start"
                                                /\ g.res \notin {NULL, "200 started"}
                  /\ ~\E g \in DOMAIN reqs' : g.pc \in {"access", "realpath", "write"}
                                                 /\ g \notin DOMAIN reqs
                  /\ UNCHANGED <<procs, activeStreams, liveStreams, cbPending>>
            /\ (StartAccess(r) /\ realpath(r.path) \notin disk) =>
                  /\ reqs' = Finish(r, "500 Video file not found")
                  /\ UNCHANGED <<procs, activeStreams, liveStreams, cbPending>>]_vars
    /\ [](\A r \in Handlers :
            (r.op = "start" /\ r.pc = "done" /\ r.res # "200 started") => r.proc = 0)

\* The stream's video has no file path: the owner's start was refused with
\* file-not-found, nothing was spawned and the stream is still `created`
C26_Witness ==
    /\ videos["v1"].filePath = NoPath
    /\ liveStreams["s1"].streamType = "video" /\ liveStreams["s1"].status = "created"
    /\ \E r \in Handlers : r.op = "start" /\ r.user = "u1" /\ r.pc = "done"
                              /\ r.res = "400 Video file not found"
    /\ procs = <<>> /\ activeStreams = <<>>

\* C27: the close event of a process that was stopped earlier leaves the
\* registry entry of a later process started for the same stream id in
\* place, so that the later process stays tracked and can be stopped.
C27_StaleExitKeepsEntry ==
    [][\A p \in Pids :
          (ProcClose(p) /\ procs[p].timer # "none"
              /\ procs[p].stream \in DOMAIN activeStreams
              /\ activeStreams[procs[p].stream].process # p
              /\ Alive(activeStreams[procs[p].stream].process))
                => activeStreams' = activeStreams]_vars

\* C28: every registry entry is the entry of a live stream that has a
\* record, so a running re-stream can always be stopped through its record.
C28_EntryHasRecord ==
    \A id \in DOMAIN activeStreams : id \in DOMAIN liveStreams

\* The row of a delete request of its owner that has a platform broadcast
\* and whose channel has a token
HasBroadcast(h) ==
    /\ h.id \in DOMAIN liveStreams /\ liveStreams[h.id].userId = h.user
    /\ liveStreams[h.id].youtubeBroadcastId # NoId
    /\ liveStreams[h.id].channelId \in DOMAIN tokens
NoBroadcast(h) ==
    /\ h.id \in DOMAIN liveStreams /\ liveStreams[h.id].userId = h.user
    /\ (liveStreams[h.id].youtubeBroadcastId = NoId
            \/ liveStreams[h.id].channelId \notin DOMAIN tokens)

\* C29: the row of a live stream with a platform broadcast is removed only
\* by a handler whose last platform call was the successful deletion of
\* that broadcast; a delete that needs a refresh it cannot make, or whose
\* refresh or platform deletion fails, ends with an error and leaves the
\* rows as they are; a row with no broadcast id, or of a channel with no
\* token, is removed with no platform call.
C29_PlatformDeleteFirst ==
    [][\A h \in MgmtHandlers :
          /\ DeleteRemove(h) =>
                \/ h.calls = <<>> /\ h.bid = NoId
                \/ /\ h.calls # <<>> /\ h.calls[Len(h.calls)].api = "delete"
                   /\ h.calls[Len(h.calls)].args = <<h.bid>>
                   /\ h.bid \notin platform.broadcasts
          /\ (DeleteValidate(h) /\ HasBroadcast(h)
                /\ PastExpiry(tokens[liveStreams[h.id].channelId])
                /\ (~tokens[liveStreams[h.id].channelId].refreshToken
                        \/ h.user \notin credentials)) =>
                /\ \E g \in DOMAIN lives' :
                      /\ g.pc = "done" /\ g.op = "delete" /\ g.id = h.id /\ g.user = h.user
                      /\ g.res \in {"400 Token expired and no refresh token. Please reconnect the channel first.",
                                    NoCredentials}
                /\ ~\E g \in DOMAIN lives' : g.pc = "remove" /\ g \notin DOMAIN lives
                /\ UNCHANGED <<liveStreams, platform, tokens>>
          /\ (DeleteValidate(h) /\ HasBroadcast(h)) =>
                ~\E g \in DOMAIN lives' : g.pc = "remove" /\ g \notin DOMAIN lives
          /\ (DeleteValidate(h) /\ NoBroadcast(h)) =>
                lives' = MgmtBecomes(h, [h EXCEPT !.pc = "remove"])
          /\ \A e \in Expiries : DeleteRefresh(h, FALSE, e) =>
                /\ liveStreams' = liveStreams /\ platform' = platform
                /\ \E g \in DOMAIN lives' : g.pc = "done" /\ g.res = DeleteBroadcastFailed
          /\ DeleteBroadcast(h, FALSE) =>
                /\ liveStreams' = liveStreams /\ platform' = platform
                /\ \E g \in DOMAIN lives' : g.pc = "done" /\ g.res = DeleteBroadcastFailed
      ]_vars

\* One delete failed at the platform and left the row; a later one refreshed
\* the token, deleted the broadcast and then removed the row
C29_Witness ==
    /\ "s1" \notin DOMAIN liveStreams
    /\ FirstBroadcast \notin platform.broadcasts
    /\ \E g \in MgmtHandlers : g.op = "delete" /\ g.res = DeleteBroadcastFailed
    /\ \E h \in MgmtHandlers :
          /\ h.op = "delete" /\ h.res = "200 Live stream deleted successfully"
          /\ Len(h.calls) = 2 /\ h.calls[1].api = "refresh" /\ h.calls[2].api = "delete"

ChannelsOf(list) == {list[k] : k \in 1..Len(list)}

\* C30: the record update of a publish request that uploaded successfully
\* keeps every channel another request has already recorded for the video,
\* so the final publishedChannels holds the successes of both.
C30_PublishWritesMerged ==
    [][\A h \in PubHandlers :
          (PubUpdate(h) /\ h.published # <<>>) =>
              ChannelsOf(videos[h.vid].publishedChannels)
                  \subseteq ChannelsOf(videos'[h.vid].publishedChannels)]_vars
====
